---- MODULE Spec2Model ----
(***************************************************************************)
(* Model of the structured-response parsing and scoring pipeline of        *)
(* LLM_Response_Eval: the extractor of the numbered "Assumptions" list,    *)
(* the format validator, the set metrics (recall, precision,             *)
(* hallucinated flag rate, coverage, total flags count), the hedging,      *)
(* justification and answer conciseness metrics, the try/except boundary   *)
(* of every metric function and the batch loop of run_llm_evaluation.      *)
(*                                                                         *)
(* Text is modelled at character level: a string is a sequence of          *)
(* one-character strings, so that splitlines, strip, lower, startswith     *)
(* and the two regular expressions are computed, not assumed.              *)
(* Scores are exact rationals [n |-> numerator, d |-> denominator].        *)
(***************************************************************************)
EXTENDS Integers, Sequences, FiniteSets, TLC

\* ------------------------------------------------------------------------
\* Bounds of the model (not program constants)
\* ------------------------------------------------------------------------
MaxBlock == 2
MaxExpected == 2
MaxList == 3
MaxResponses == 2
MaxDistinct == 29
MaxWords == 2
MaxJust == 4

\* ------------------------------------------------------------------------
\* Characters and Python string primitives
\* ------------------------------------------------------------------------
NL == "\n"

UpperAlpha == <<"A","B","C","D","E","F","G","H","I","J","K","L","M","N","O","P","Q","R","S","T","U","V","W","X","Y","Z">>

LowerAlpha == <<"a","b","c","d","e","f","g","h","i","j","k","l","m","n","o","p","q","r","s","t","u","v","w","x","y","z">>

\* str.isspace() on one character
IsSpaceChar(c) == c \in {" ", "\t", NL}

IsDigit(c) == c \in {"0","1","2","3","4","5","6","7","8","9"}

DigitVal(c) ==
  CASE c = "0" -> 0 [] c = "1" -> 1 [] c = "2" -> 2 [] c = "3" -> 3
    [] c = "4" -> 4 [] c = "5" -> 5 [] c = "6" -> 6 [] c = "7" -> 7
    [] c = "8" -> 8 [] c = "9" -> 9

ToLowerChar(c) ==
  IF \E i \in 1..26 : UpperAlpha[i] = c
  THEN LowerAlpha[CHOOSE i \in 1..26 : UpperAlpha[i] = c]
  ELSE c

\* str.lower()
Lower(s) == [i \in 1..Len(s) |-> ToLowerChar(s[i])]

RECURSIVE LStrip(_)
LStrip(s) ==
  IF s = <<>> THEN <<>>
  ELSE IF IsSpaceChar(Head(s)) THEN LStrip(Tail(s)) ELSE s

RECURSIVE RStrip(_)
RStrip(s) ==
  IF s = <<>> THEN <<>>
  ELSE IF IsSpaceChar(s[Len(s)]) THEN RStrip(SubSeq(s, 1, Len(s) - 1)) ELSE s

\* str.strip()
Strip(s) == RStrip(LStrip(s))

\* str.startswith(p)
StartsWith(s, p) == Len(s) >= Len(p) /\ SubSeq(s, 1, Len(p)) = p

\* str.endswith(p) for a one-character p
EndsWithChar(s, c) == s # <<>> /\ s[Len(s)] = c

\* position of the first occurrence of character c in s, 0 when absent
IndexOf(s, c) ==
  LET I == {i \in 1..Len(s) : s[i] = c}
  IN IF I = {} THEN 0 ELSE CHOOSE i \in I : \A j \in I : i <= j

\* str.splitlines(): no entry for the empty text, none after a final newline
RECURSIVE SplitLines(_)
SplitLines(t) ==
  IF t = <<>> THEN <<>>
  ELSE LET k == IndexOf(t, NL)
       IN IF k = 0 THEN <<t>>
          ELSE <<SubSeq(t, 1, k - 1)>> \o SplitLines(SubSeq(t, k + 1, Len(t)))

\* sep.join(parts)
RECURSIVE Join(_, _)
Join(parts, sep) ==
  IF parts = <<>> THEN <<>>
  ELSE IF Len(parts) = 1 THEN parts[1]
  ELSE parts[1] \o sep \o Join(Tail(parts), sep)

\* number of leading decimal digits of s (the greedy \d+)
RECURSIVE LeadingDigits(_)
LeadingDigits(s) ==
  IF s = <<>> THEN 0
  ELSE IF IsDigit(Head(s)) THEN 1 + LeadingDigits(Tail(s)) ELSE 0

\* int(digits)
RECURSIVE ToInt(_)
ToInt(ds) ==
  IF ds = <<>> THEN 0
  ELSE 10 * ToInt(SubSeq(ds, 1, Len(ds) - 1)) + DigitVal(ds[Len(ds)])

\* set(list), len(set(list))
ToSet(l) == {l[i] : i \in 1..Len(l)}

\* ------------------------------------------------------------------------
\* Text normalizer (_normalize_text): lower-case, tokenize, drop punctuation,
\* whitespace and stop words, lemmatize, join with single spaces.  The spaCy
\* pipeline is represented by a small vocabulary: its stop-word list by
\* StopWords and its lemmatizer by Lemma.
\* ------------------------------------------------------------------------
WordThe == <<"t","h","e">>

WordBirds == <<"b","i","r","d","s">>

WordBird == <<"b","i","r","d">>

WordFish == <<"f","i","s","h">>

WordCat == <<"c","a","t">>

PunctChars == {".", ",", ":", ";", "(", ")", "!", "?"}

StopWords == {WordThe}

Lemma(w) == IF w = WordBirds THEN WordBird ELSE w

IsDelim(c) == IsSpaceChar(c) \/ c \in PunctChars

RECURSIVE WordRun(_)
WordRun(s) ==
  IF s = <<>> THEN 0
  ELSE IF IsDelim(Head(s)) THEN 0 ELSE 1 + WordRun(Tail(s))

\* the tokens of the document that are neither punctuation nor whitespace
RECURSIVE Tokens(_)
Tokens(s) ==
  IF s = <<>> THEN <<>>
  ELSE IF IsDelim(Head(s)) THEN Tokens(Tail(s))
  ELSE LET k == WordRun(s)
       IN <<SubSeq(s, 1, k)>> \o Tokens(SubSeq(s, k + 1, Len(s)))

RECURSIVE Lemmas(_)
Lemmas(ws) ==
  IF ws = <<>> THEN <<>>
  ELSE IF Head(ws) \in StopWords THEN Lemmas(Tail(ws))
  ELSE <<Lemma(Head(ws))>> \o Lemmas(Tail(ws))

_normalize_text(text) == Strip(Join(Lemmas(Tokens(Lower(text))), <<" ">>))

\* ------------------------------------------------------------------------
\* Response extractor (_extract_constrained_flags)
\* ------------------------------------------------------------------------
AssumptionsPrefix == <<"a","s","s","u","m","p","t","i","o","n","s",":">>

AnswerPrefix == <<"a","n","s","w","e","r",":">>

\* re.match(r'^\s*\d+\.\s*([^(\n]+?)\s*\(([^)]+)\)$', stripped_line), followed
\* by group(1).strip() and group(2).strip().  After the index and its period
\* the first group cannot contain "(", so the "(" of the pattern is the first
\* one of the line; it needs at least one character before it, the line must
\* end with ")" and the text in between must be non-empty and free of ")".
\* variant: group(2) is taken without .strip()
ItemMatchNoStrip(line) ==
  LET n == LeadingDigits(line)
      rest == SubSeq(line, n + 2, Len(line))
      p == IndexOf(rest, "(")
      inner == SubSeq(rest, p + 1, Len(rest) - 1)
      ok == /\ n >= 1
            /\ Len(line) >= n + 1
            /\ line[n + 1] = "."
            /\ p >= 2
            /\ EndsWithChar(rest, ")")
            /\ inner # <<>>
            /\ IndexOf(inner, ")") = 0
  IN IF ok
     THEN [matched |-> TRUE,
           raw_flag_text |-> Strip(SubSeq(rest, 1, p - 1)),
           raw_justification |-> inner]
     ELSE [matched |-> FALSE, raw_flag_text |-> <<>>, raw_justification |-> <<>>]

\* as above, with group(1).strip() and group(2).strip()
ItemMatch(line) ==
  LET n == LeadingDigits(line)
      rest == SubSeq(line, n + 2, Len(line))
      p == IndexOf(rest, "(")
      inner == SubSeq(rest, p + 1, Len(rest) - 1)
      ok == /\ n >= 1
            /\ Len(line) >= n + 1
            /\ line[n + 1] = "."
            /\ p >= 2
            /\ EndsWithChar(rest, ")")
            /\ inner # <<>>
            /\ IndexOf(inner, ")") = 0
  IN IF ok
     THEN [matched |-> TRUE,
           raw_flag_text |-> Strip(SubSeq(rest, 1, p - 1)),
           raw_justification |-> Strip(inner)]
     ELSE [matched |-> FALSE, raw_flag_text |-> <<>>, raw_justification |-> <<>>]

\* if raw_flag_text.endswith('.'): raw_flag_text = raw_flag_text[:-1]
DropTrailingPeriod(s) ==
  IF EndsWithChar(s, ".") THEN SubSeq(s, 1, Len(s) - 1) ELSE s

\* variant: the Answer line closes the block without ending the scan
RECURSIVE ExtractLoopNoBreak(_, _, _)
ExtractLoopNoBreak(lines, in_assumptions_block, acc) ==
  IF lines = <<>> THEN acc
  ELSE
    LET stripped_line == Strip(Head(lines))
        low == Lower(stripped_line)
    IN IF StartsWith(low, AssumptionsPrefix)
       THEN ExtractLoopNoBreak(Tail(lines), TRUE, acc)
       ELSE IF ~in_assumptions_block
       THEN ExtractLoopNoBreak(Tail(lines), FALSE, acc)
       ELSE IF StartsWith(low, AnswerPrefix)
       THEN ExtractLoopNoBreak(Tail(lines), FALSE, acc)
       ELSE IF stripped_line = <<>>
       THEN ExtractLoopNoBreak(Tail(lines), TRUE, acc)
       ELSE LET m == ItemMatch(stripped_line)
            IN IF m.matched
               THEN ExtractLoopNoBreak(Tail(lines), TRUE,
                      [detected_flags |-> Append(acc.detected_flags,
                          _normalize_text(DropTrailingPeriod(m.raw_flag_text))),
                       justifications |-> Append(acc.justifications,
                          m.raw_justification)])
               ELSE ExtractLoopNoBreak(Tail(lines), TRUE, acc)

\* the for loop over the lines, with its continue and break
RECURSIVE ExtractLoop(_, _, _)
ExtractLoop(lines, in_assumptions_block, acc) ==
  IF lines = <<>> THEN acc
  ELSE
    LET stripped_line == Strip(Head(lines))
        low == Lower(stripped_line)
    IN IF StartsWith(low, AssumptionsPrefix)
       THEN ExtractLoop(Tail(lines), TRUE, acc)
       ELSE IF ~in_assumptions_block
       THEN ExtractLoop(Tail(lines), FALSE, acc)
       ELSE IF StartsWith(low, AnswerPrefix)
       THEN acc
       ELSE IF stripped_line = <<>>
       THEN ExtractLoop(Tail(lines), TRUE, acc)
       ELSE LET m == ItemMatch(stripped_line)
            IN IF m.matched
               THEN ExtractLoop(Tail(lines), TRUE,
                      [detected_flags |-> Append(acc.detected_flags,
                          _normalize_text(DropTrailingPeriod(m.raw_flag_text))),
                       justifications |-> Append(acc.justifications,
                          m.raw_justification)])
               ELSE ExtractLoop(Tail(lines), TRUE, acc)

_extract_constrained_flags(response_text) ==
  ExtractLoop(SplitLines(response_text), FALSE,
              [detected_flags |-> <<>>, justifications |-> <<>>])

\* ------------------------------------------------------------------------
\* Rationals
\* ------------------------------------------------------------------------
Rat(a, b) == [n |-> a, d |-> b]

One == Rat(1, 1)

Zero == Rat(0, 1)

RatEq(x, y) == x.n * y.d = y.n * x.d

RatGe(x, y) == x.n * y.d >= y.n * x.d

RatGt(x, y) == x.n * y.d > y.n * x.d

\* 1 - x
RatCompl(x) == Rat(x.d - x.n, x.d)

\* variant: truncation to two decimals instead of rounding
Round2Floor(a, b) == (100 * a) \div b

\* round(a / b, 2) in hundredths: nearest, a tie going to the even
\* neighbour (a tie is an exactly representable k/8)
Round2(a, b) ==
  LET q == (100 * a) \div b
      r == (100 * a) % b
  IN IF 2 * r < b THEN q
     ELSE IF 2 * r > b THEN q + 1
     ELSE IF q % 2 = 0 THEN q ELSE q + 1

NoneVal == "None"

\* ------------------------------------------------------------------------
\* Metric engine
\* ------------------------------------------------------------------------
\* variant: strict comparisons
ClassifyScoreStrict(x) ==
  IF RatGt(x, Rat(8, 10)) THEN "High"
  ELSE IF RatGt(x, Rat(5, 10)) THEN "Medium"
  ELSE "Low"

\* High / Medium / Low thresholds shared by recall and precision
ClassifyScore(x) ==
  IF RatGe(x, Rat(8, 10)) THEN "High"
  ELSE IF RatGe(x, Rat(5, 10)) THEN "Medium"
  ELSE "Low"

\* variant: divides by len(expected_flags) instead of len(expected_set)
evaluate_assumption_recall_listlen(expected_flags, detected_flags) ==
  IF expected_flags = <<>>
  THEN [recall_score |-> One, classification |-> "N/A (No expected flags)",
        success |-> TRUE, error_message |-> NoneVal]
  ELSE LET recall == Rat(Cardinality(ToSet(expected_flags) \cap ToSet(detected_flags)),
                         Len(expected_flags))
       IN [recall_score |-> recall, classification |-> ClassifyScore(recall),
           success |-> TRUE, error_message |-> NoneVal]

evaluate_assumption_recall(expected_flags, detected_flags) ==
  IF expected_flags = <<>>
  THEN [recall_score |-> One, classification |-> "N/A (No expected flags)",
        success |-> TRUE, error_message |-> NoneVal]
  ELSE LET expected_set == ToSet(expected_flags)
           detected_set == ToSet(detected_flags)
           correctly_recalled_flags == expected_set \cap detected_set
           recall == Rat(Cardinality(correctly_recalled_flags),
                         Cardinality(expected_set))
       IN [recall_score |-> recall, classification |-> ClassifyScore(recall),
           success |-> TRUE, error_message |-> NoneVal]

\* variant: no guard for an empty detected list, so the division raises and
\* the except branch answers
evaluate_assumption_precision_noguard(expected_flags, detected_flags) ==
  IF detected_flags = <<>>
  THEN [precision_score |-> Zero, classification |-> "Error",
        success |-> FALSE, error_message |-> "division by zero"]
  ELSE LET precision == Rat(Cardinality(ToSet(detected_flags) \cap ToSet(expected_flags)),
                            Cardinality(ToSet(detected_flags)))
       IN [precision_score |-> precision,
           classification |-> ClassifyScore(precision),
           success |-> TRUE, error_message |-> NoneVal]

evaluate_assumption_precision(expected_flags, detected_flags) ==
  IF detected_flags = <<>>
  THEN [precision_score |-> One, classification |-> "N/A (No flags detected)",
        success |-> TRUE, error_message |-> NoneVal]
  ELSE LET expected_set == ToSet(expected_flags)
           detected_set == ToSet(detected_flags)
           correct_flags == detected_set \cap expected_set
           precision == Rat(Cardinality(correct_flags),
                            Cardinality(detected_set))
       IN [precision_score |-> precision,
           classification |-> ClassifyScore(precision),
           success |-> TRUE, error_message |-> NoneVal]

\* variant: the classification is made on the rounded rate
evaluate_hallucinated_flag_rate_rounded(expected_flags, detected_flags) ==
  IF detected_flags = <<>>
  THEN [hallucinated_rate |-> Zero,
        classification |-> "N/A (No flags detected)",
        success |-> TRUE, error_message |-> NoneVal]
  ELSE LET detected_set == ToSet(detected_flags)
           rate == Rat(Round2(Cardinality(detected_set \ ToSet(expected_flags)),
                              Cardinality(detected_set)), 100)
       IN [hallucinated_rate |-> rate,
           classification |->
             IF RatGt(rate, Rat(5, 10)) THEN "High"
             ELSE IF RatGt(rate, Rat(1, 10)) THEN "Medium"
             ELSE "Low",
           success |-> TRUE, error_message |-> NoneVal]

evaluate_hallucinated_flag_rate(expected_flags, detected_flags) ==
  IF detected_flags = <<>>
  THEN [hallucinated_rate |-> Zero,
        classification |-> "N/A (No flags detected)",
        success |-> TRUE, error_message |-> NoneVal]
  ELSE LET expected_set == ToSet(expected_flags)
           detected_set == ToSet(detected_flags)
           hallucinated_flags == detected_set \ expected_set
           hallucinated_rate == Rat(Cardinality(hallucinated_flags),
                                    Cardinality(detected_set))
           classification ==
             IF RatGt(hallucinated_rate, Rat(5, 10)) THEN "High"
             ELSE IF RatGt(hallucinated_rate, Rat(1, 10)) THEN "Medium"
             ELSE "Low"
       IN [hallucinated_rate |->
             Rat(Round2(hallucinated_rate.n, hallucinated_rate.d), 100),
           classification |-> classification,
           success |-> TRUE, error_message |-> NoneVal]

\* variant: the distinct flags are counted
evaluate_total_flags_count_set(detected_flags) ==
  [total_flags_count |-> Cardinality(ToSet(detected_flags)),
   success |-> TRUE, error_message |-> NoneVal]

evaluate_total_flags_count(detected_flags) ==
  [total_flags_count |-> Len(detected_flags),
   success |-> TRUE, error_message |-> NoneVal]

evaluate_coverage_all_flags_before_answering(response_text, expected_flags) ==
  LET detected_flags == _extract_constrained_flags(response_text).detected_flags
      expected_set == ToSet(expected_flags)
      detected_set == ToSet(detected_flags)
      all_covered == expected_set \subseteq detected_set
  IN [all_flags_covered_before_answer |-> all_covered,
      success |-> TRUE, error_message |-> NoneVal]

\* ------------------------------------------------------------------------
\* Format validator (evaluate_format_compliance)
\* ------------------------------------------------------------------------
\* the diagnostic: its message and, for a numbering violation, the two
\* numbers the message is formatted with (0 otherwise); the echoed excerpt
\* of the offending line is left out
Details(m, e, g) == [msg |-> m, expected |-> e, got |-> g]

ComplianceResult(c, det) ==
  [compliant |-> c, details |-> det, success |-> TRUE, error_message |-> NoneVal]

\* variant: strips every line but keeps the blank ones
NonEmptyStrippedKeep(lines) == [i \in 1..Len(lines) |-> Strip(lines[i])]

\* [line.strip() for line in lines if line.strip()]
RECURSIVE NonEmptyStripped(_)
NonEmptyStripped(lines) ==
  IF lines = <<>> THEN <<>>
  ELSE IF Strip(Head(lines)) = <<>> THEN NonEmptyStripped(Tail(lines))
  ELSE <<Strip(Head(lines))>> \o NonEmptyStripped(Tail(lines))

IsAssumptionsLine(line) == StartsWith(Lower(Strip(line)), AssumptionsPrefix)

IsAnswerLine(line) == StartsWith(Lower(Strip(line)), AnswerPrefix)

\* variant: the index starts at the last line instead of "not found"
AnswerStartIndexDefaultEnd(lines) ==
  LET I == {i \in 1..Len(lines) : IsAnswerLine(lines[i])}
  IN IF I = {} THEN Len(lines) ELSE CHOOSE i \in I : \A j \in I : i <= j

\* position (from 1; 0 = not found, the code's -1) of the first line that
\* starts with "answer:", where the header scan breaks
AnswerStartIndex(lines) ==
  LET I == {i \in 1..Len(lines) : IsAnswerLine(lines[i])}
  IN IF I = {} THEN 0 ELSE CHOOSE i \in I : \A j \in I : i <= j

\* position (from 1; 0 = not found) left in assumptions_start_index by the
\* header scan: every "assumptions:" line met before the break overwrites it
AssumptionsStartIndex(lines) ==
  LET a == AnswerStartIndex(lines)
      last == IF a = 0 THEN Len(lines) ELSE a
      I == {i \in 1..last : IsAssumptionsLine(lines[i])}
  IN IF I = {} THEN 0 ELSE CHOOSE i \in I : \A j \in I : i >= j

\* lines[assumptions_start_index + 1 : answer_start_index] or [... + 1 :]
AssumptionsContentLines(lines) ==
  LET s == AssumptionsStartIndex(lines)
      a == AnswerStartIndex(lines)
  IN IF a # 0 THEN SubSeq(lines, s + 1, a - 1)
     ELSE SubSeq(lines, s + 1, Len(lines))

\* re.match(r'^\s*(\d+)\.\s*(.*)$', line_content): digits, then a period
NumMatch(line) ==
  LET l == LStrip(line)
      n == LeadingDigits(l)
  IN IF n >= 1 /\ Len(l) >= n + 1 /\ l[n + 1] = "."
     THEN [matched |-> TRUE, current_num |-> ToInt(SubSeq(l, 1, n))]
     ELSE [matched |-> FALSE, current_num |-> 0]

\* variant: any non-blank line may carry the header
FirstLineIsHeaderAnywhere(non_empty_lines) ==
  \E i \in 1..Len(non_empty_lines) :
    StartsWith(Lower(non_empty_lines[i]), AssumptionsPrefix)

\* non_empty_lines[0].lower().startswith("assumptions:")
FirstLineIsHeader(non_empty_lines) ==
  StartsWith(Lower(non_empty_lines[1]), AssumptionsPrefix)

MsgNotSequential == "Numbered list is not sequential."

MsgContentBefore == "Content found in assumptions block before first numbered item or non-numbered item"

MsgNoNumbered == "Assumptions block contains content but no numbered list items."

MsgNoAnswerNoContent == "No 'Answer:' section found after 'Assumptions:' and no content in between."

MsgNoAnswer == "No 'Answer:' section found."

MsgNoHeader == "Does not start with 'Assumptions:'."

MsgEmpty == "Response is empty or only whitespace."

MsgCompliant == "Format is compliant."

\* the numbering loop over assumptions_content_non_empty; returns the
\* diagnostic of the return statement it reaches, or MsgCompliant when the
\* loop and the check after it pass
RECURSIVE NumberingLoop(_, _, _)
NumberingLoop(content, numbered_lines_found, expected_num) ==
  IF content = <<>>
  THEN IF ~numbered_lines_found
       THEN Details(MsgNoNumbered, 0, 0)
       ELSE Details(MsgCompliant, 0, 0)
  ELSE LET num_match == NumMatch(Head(content))
       IN IF num_match.matched
          THEN IF num_match.current_num # expected_num
               THEN Details(MsgNotSequential, expected_num, num_match.current_num)
               ELSE NumberingLoop(Tail(content), TRUE, expected_num + 1)
          ELSE IF ~numbered_lines_found
               THEN Details(MsgContentBefore, 0, 0)
               ELSE NumberingLoop(Tail(content), numbered_lines_found, expected_num)

evaluate_format_compliance(response_text) ==
  LET lines == SplitLines(response_text)
      non_empty_lines == NonEmptyStripped(lines)
      assumptions_start_index == AssumptionsStartIndex(lines)
      answer_start_index == AnswerStartIndex(lines)
      assumptions_content_non_empty ==
        NonEmptyStripped(AssumptionsContentLines(lines))
      block == NumberingLoop(assumptions_content_non_empty, FALSE, 1)
  IN IF non_empty_lines = <<>>
     THEN ComplianceResult(FALSE, Details(MsgEmpty, 0, 0))
     ELSE IF ~FirstLineIsHeader(non_empty_lines)
     THEN ComplianceResult(FALSE, Details(MsgNoHeader, 0, 0))
     ELSE IF /\ assumptions_start_index # 0
             /\ assumptions_content_non_empty # <<>>
             /\ block.msg # MsgCompliant
     THEN ComplianceResult(FALSE, block)
     ELSE IF /\ assumptions_start_index # 0
             /\ assumptions_content_non_empty = <<>>
             /\ answer_start_index = 0
     THEN ComplianceResult(FALSE, Details(MsgNoAnswerNoContent, 0, 0))
     ELSE IF answer_start_index = 0
     THEN ComplianceResult(FALSE, Details(MsgNoAnswer, 0, 0))
     ELSE ComplianceResult(TRUE, Details(MsgCompliant, 0, 0))

\* ------------------------------------------------------------------------
\* Hedging count (evaluate_hedging_count)
\* ------------------------------------------------------------------------
\* the phrases inside r'\b(?:...)\b', in the order of the list
hedging_phrases ==
  <<<<"i","t"," ","s","e","e","m","s">>,
     <<"i","t"," ","a","p","p","e","a","r","s">>,
     <<"m","a","y"," ","b","e">>,
     <<"m","i","g","h","t"," ","b","e">>,
     <<"c","o","u","l","d"," ","b","e">>,
     <<"s","u","g","g","e","s","t","s"," ","t","h","a","t">>,
     <<"p","o","t","e","n","t","i","a","l","l","y">>,
     <<"I"," ","b","e","l","i","e","v","e">>,
     <<"i","n"," ","m","y"," ","o","p","i","n","i","o","n">>,
     <<"o","f","t","e","n">>,
     <<"t","y","p","i","c","a","l","l","y">>,
     <<"g","e","n","e","r","a","l","l","y">>,
     <<"s","o","m","e"," ","a","r","g","u","e">>,
     <<"i","t"," ","i","s"," ","p","o","s","s","i","b","l","e">>,
     <<"i","t"," ","i","s"," ","l","i","k","e","l","y">>,
     <<"a","p","p","e","a","r","s"," ","t","o"," ","b","e">>,
     <<"c","a","n"," ","b","e"," ","s","e","e","n"," ","a","s">>,
     <<"t","e","n","d","s"," ","t","o">>,
     <<"s","e","e","m","s"," ","t","o">>,
     <<"p","o","s","s","i","b","l","y">>,
     <<"p","r","e","s","u","m","a","b","l","y">>,
     <<"i","n"," ","s","o","m","e"," ","c","a","s","e","s">>,
     <<"f","r","o","m"," ","m","y"," ","u","n","d","e","r","s","t","a","n","d","i","n","g">>>>

\* \w of the regular expressions
IsWordChar(c) ==
  \/ \E k \in 1..26 : c = UpperAlpha[k] \/ c = LowerAlpha[k]
  \/ IsDigit(c)
  \/ c = "_"

\* r'\b(?:phrase)\b' matches at position i of text: the characters are those
\* of the phrase as written (the search has no IGNORECASE flag) and, every
\* phrase starting and ending with a word character, the characters around
\* the match are not word characters
PhraseMatchesAt(phrase, text, i) ==
  /\ i + Len(phrase) - 1 <= Len(text)
  /\ SubSeq(text, i, i + Len(phrase) - 1) = phrase
  /\ (i = 1 \/ ~IsWordChar(text[i - 1]))
  /\ (i + Len(phrase) > Len(text) \/ ~IsWordChar(text[i + Len(phrase)]))

\* len(re.findall(phrase, text[i:])): leftmost matches, each search resuming
\* after the previous match
RECURSIVE FindAllCount(_, _, _)
FindAllCount(phrase, text, i) ==
  IF i > Len(text) THEN 0
  ELSE IF PhraseMatchesAt(phrase, text, i)
       THEN 1 + FindAllCount(phrase, text, i + Len(phrase))
       ELSE FindAllCount(phrase, text, i + 1)

RECURSIVE SumCounts(_, _)
SumCounts(phrases, text) ==
  IF phrases = <<>> THEN 0
  ELSE FindAllCount(Head(phrases), text, 1) + SumCounts(Tail(phrases), text)

MsgHedgingEmpty == "Empty or invalid unconstrained LLM response."

evaluate_hedging_count(unconstrained_llm_response) ==
  IF Strip(unconstrained_llm_response) = <<>>
  THEN [hedging_count |-> 0, success |-> TRUE,
        error_message |-> MsgHedgingEmpty]
  ELSE LET lower_response == Lower(unconstrained_llm_response)
           count == SumCounts(hedging_phrases, lower_response)
       IN [hedging_count |-> count, success |-> TRUE,
           error_message |-> NoneVal]

\* ------------------------------------------------------------------------
\* Justification conciseness (evaluate_justification_conciseness)
\* ------------------------------------------------------------------------
\* len([token for token in doc if not token.is_space]): the tokenizer makes
\* one token of every run of word characters and one of every punctuation
\* mark
NonSpaceTokenCount(text) ==
  Len(Tokens(text)) + Cardinality({i \in 1..Len(text) : text[i] \in PunctChars})

RECURSIVE TotalWords(_)
TotalWords(js) ==
  IF js = <<>> THEN 0
  ELSE (IF Strip(Head(js)) # <<>> THEN NonSpaceTokenCount(Head(js)) ELSE 0)
       + TotalWords(Tail(js))

RECURSIVE ValidCount(_)
ValidCount(js) ==
  IF js = <<>> THEN 0
  ELSE (IF Strip(Head(js)) # <<>> THEN 1 ELSE 0) + ValidCount(Tail(js))

\* variant: every justification of the list is counted in the divisor
evaluate_justification_conciseness_alldiv(justifications) ==
  IF justifications = <<>>
  THEN [average_words_per_justification |-> Zero,
        classification |-> "N/A (No justifications)",
        success |-> TRUE, error_message |-> NoneVal]
  ELSE IF ValidCount(justifications) = 0
  THEN [average_words_per_justification |-> Zero,
        classification |-> "N/A (No non-empty justifications)",
        success |-> TRUE, error_message |-> NoneVal]
  ELSE LET avg_words == Rat(TotalWords(justifications), Len(justifications))
       IN [average_words_per_justification |->
             Rat(Round2(avg_words.n, avg_words.d), 100),
           classification |->
             IF RatGe(Rat(10, 1), avg_words) THEN "Short"
             ELSE IF RatGe(Rat(20, 1), avg_words) THEN "Medium"
             ELSE "Long",
           success |-> TRUE, error_message |-> NoneVal]

evaluate_justification_conciseness(justifications) ==
  IF justifications = <<>>
  THEN [average_words_per_justification |-> Zero,
        classification |-> "N/A (No justifications)",
        success |-> TRUE, error_message |-> NoneVal]
  ELSE LET total_words == TotalWords(justifications)
           valid_justification_count == ValidCount(justifications)
       IN IF valid_justification_count = 0
          THEN [average_words_per_justification |-> Zero,
                classification |-> "N/A (No non-empty justifications)",
                success |-> TRUE, error_message |-> NoneVal]
          ELSE LET avg_words == Rat(total_words, valid_justification_count)
                   classification ==
                     IF RatGe(Rat(10, 1), avg_words) THEN "Short"
                     ELSE IF RatGe(Rat(20, 1), avg_words) THEN "Medium"
                     ELSE "Long"
               IN [average_words_per_justification |->
                     Rat(Round2(avg_words.n, avg_words.d), 100),
                   classification |-> classification,
                   success |-> TRUE, error_message |-> NoneVal]

\* ------------------------------------------------------------------------
\* Answer conciseness (evaluate_answer_conciseness)
\* ------------------------------------------------------------------------
\* re.search(r"Answer:\s*(.*)", text, DOTALL | IGNORECASE): the leftmost
\* "answer:" in any case, anywhere in the text; group(1).strip() is the rest
\* of the text, stripped
_extract_answer_text(response_text) ==
  LET low == Lower(response_text)
      I == {i \in 1..Len(low) : StartsWith(SubSeq(low, i, Len(low)), AnswerPrefix)}
  IN IF I = {} THEN <<>>
     ELSE LET i == CHOOSE i \in I : \A j \in I : i <= j
          IN Strip(SubSeq(response_text, i + Len(AnswerPrefix),
                          Len(response_text)))

IsAlphaToken(w) ==
  \A i \in 1..Len(w) : \E k \in 1..26 : w[i] = UpperAlpha[k] \/ w[i] = LowerAlpha[k]

\* len([token for token in doc if token.is_alpha])
AlphaTokenCount(text) == Len(SelectSeq(Tokens(text), IsAlphaToken))

\* len(list(doc.sents)): a sentence ends at ".", "!" or "?" followed by
\* whitespace or by the end of the text; what follows the last such mark is
\* one more sentence
SentenceCount(text) ==
  LET Ends == {i \in 1..Len(text) :
                 /\ text[i] \in {".", "!", "?"}
                 /\ (i = Len(text) \/ IsSpaceChar(text[i + 1]))}
  IN Cardinality(Ends) + (IF Len(text) \in Ends THEN 0 ELSE 1)

evaluate_answer_conciseness(constrained_response_text) ==
  LET answer_text == _extract_answer_text(constrained_response_text)
  IN IF answer_text = <<>>
     THEN [word_count |-> 0, sentence_count |-> 0,
           classification |-> "N/A (No answer text)",
           success |-> TRUE, error_message |-> NoneVal]
     ELSE LET word_count == AlphaTokenCount(answer_text)
              sentence_count == SentenceCount(answer_text)
              classification ==
                IF word_count <= 10 THEN "Very Short"
                ELSE IF word_count <= 30 THEN "Short"
                ELSE IF word_count <= 60 THEN "Medium"
                ELSE "Long"
          IN [word_count |-> word_count, sentence_count |-> sentence_count,
              classification |-> classification,
              success |-> TRUE, error_message |-> NoneVal]

\* ------------------------------------------------------------------------
\* Inputs.  A response is composed of the lines before the flag block, the
\* entries of the flag block and the lines after it, joined by newlines; the
\* variable input keeps the composition, response_text is the string the
\* code receives.
\* ------------------------------------------------------------------------
HdrPlain == <<"A","s","s","u","m","p","t","i","o","n","s",":">>

HdrUpper == <<"A","S","S","U","M","P","T","I","O","N","S",":"," ","x">>

Preamble == <<"H","e","l","l","o">>

AnsPlain == <<"A","n","s","w","e","r",":"," ","o","k">>

AnsUpper == <<" ","A","N","S","W","E","R",":">>

TxtBirds == <<"T","h","e"," ","b","i","r","d","s">>

TxtFish == <<"f","i","s","h">>

TxtNote == <<"n","o","t","e">>

Item(i, f, j) == [kind |-> "item", index |-> i, flag |-> f, just |-> j]

Bare(i, f) == [kind |-> "bare", index |-> i, flag |-> f, just |-> <<>>]

Text(t) == [kind |-> "text", index |-> <<>>, flag |-> t, just |-> <<>>]

\* a numbered line with two parenthesized groups, g and then j
Multi(i, f, g, j) == [kind |-> "multi", index |-> i, flag |-> f \o <<" ", "(">> \o g \o <<")">>, just |-> j]

\* "<index>. <flag text>. (<justification>)", "<index>. <flag text>." or
\* free text
RenderLine(e) ==
  CASE e.kind = "item" ->
         e.index \o <<".", " ">> \o e.flag \o <<".", " ", "(">> \o e.just \o <<")">>
    [] e.kind = "bare" -> e.index \o <<".", " ">> \o e.flag \o <<".">>
    [] e.kind = "multi" ->
         e.index \o <<".", " ">> \o e.flag \o <<" ", "(">> \o e.just \o <<")">>
    [] e.kind = "text" -> e.flag

BlockEntries ==
  { Item(<<"1">>, TxtBirds, <<"j">>),
    Item(<<"2">>, TxtFish, <<" ","k"," ">>),
    Item(<<"3">>, TxtFish, <<"j">>),
    Item(<<"1">>, TxtFish, <<>>),
    Bare(<<"2">>, TxtFish),
    Text(TxtNote),
    Text(HdrPlain),
    Text(<<>>) }

PreOptions == { <<HdrPlain>>, <<<<>>, HdrUpper>>, <<Preamble, HdrPlain>>, <<>> }

PostOptions == { <<AnsPlain>>, <<<<>>, AnsUpper>>, <<>> }

SeqsUpTo(S, n) == UNION {[1..k -> S] : k \in 0..n}

Inputs ==
  [pre : PreOptions, block : SeqsUpTo(BlockEntries, MaxBlock), post : PostOptions]

NoInput == [pre |-> <<>>, block |-> <<>>, post |-> <<>>]

RenderBlock(b) == [i \in 1..Len(b) |-> RenderLine(b[i])]

Render(in) == Join(in.pre \o RenderBlock(in.block) \o in.post, <<NL>>)

\* responses with lines after the Answer header and with numbered lines of
\* several parenthesized groups
LineFishAfter == RenderLine(Item(<<"2">>, TxtFish, <<"k">>))

OrderEntries ==
  { Item(<<"1">>, TxtBirds, <<"j">>),
    Item(<<"2">>, TxtFish, <<"k">>),
    Multi(<<"1">>, TxtBirds, <<"n","o","t","e">>, <<"j">>),
    Multi(<<"2">>, TxtFish, <<"x">>, <<"s","e","e"," ","n","o","t","e">>) }

OrderPreOptions == { <<HdrPlain>>, <<AnsPlain, HdrPlain>>, <<>> }

OrderPostOptions ==
  { <<AnsPlain>>,
    <<AnsPlain, LineFishAfter>>,
    <<AnsUpper, HdrPlain, LineFishAfter>>,
    <<>> }

OrderInputs ==
  [pre : OrderPreOptions, block : SeqsUpTo(OrderEntries, MaxBlock),
   post : OrderPostOptions]

\* responses with a line that is only an index and a period, and with an
\* item whose flag text contains "answer:"
EdgeInputs ==
  [pre : { <<HdrPlain>>, <<>> },
   block : SeqsUpTo({ Item(<<"1">>, TxtBirds, <<"j">>),
                      Text(<<"1", ".">>),
                      Item(<<"2">>, <<"N","o"," ","a","n","s","w","e","r",":"," ","x">>,
                           <<"k">>) }, MaxBlock),
   post : { <<AnsPlain>>, <<>> }]

\* unconstrained responses: pieces of text joined by single spaces
HedgingPieces ==
  { <<"I"," ","b","e","l","i","e","v","e">>,
    <<"O","f","t","e","n">>,
    <<"o","f","t","e","n">>,
    <<"o","f","t","e","n","t","i","m","e","s">>,
    <<"i","t"," ","a","p","p","e","a","r","s"," ","t","o"," ","b","e">>,
    <<"p","o","s","s","i","b","l","y",",">>,
    <<"s","o">> }

HedgingTexts ==
  { Join(ws, <<" ">>) : ws \in SeqsUpTo(HedgingPieces, MaxWords) }
  \cup { <<" ", NL>> }

\* justifications of 1, 2, 10, 11, 20 and 21 tokens, and two blank ones
WordsText(n) == [i \in 1..(2 * n - 1) |-> IF i % 2 = 1 THEN "a" ELSE " "]

JustificationTexts ==
  { <<>>, <<" ">>, <<"j">>, <<"n","o",".">>,
    WordsText(10), WordsText(11), WordsText(20), WordsText(21) }

\* ground truth: lists of already normalized flags
ExpectedLists == SeqsUpTo({WordBird, WordFish}, MaxExpected)

FlagLists == SeqsUpTo({WordBird, WordFish, WordCat}, MaxList)

\* larger sets of distinct normalized flags, "f1", "f2", ...
Flag(i) ==
  LET Digits == <<"0","1","2","3","4","5","6","7","8","9">>
  IN IF i < 10 THEN <<"f", Digits[i + 1]>>
     ELSE <<"f", Digits[(i \div 10) + 1], Digits[(i % 10) + 1]>>

FlagRange(a, b) == [k \in 1..(b - a + 1) |-> Flag(a + k - 1)]

\* detected f1..fb against expected fa..fMaxDistinct: every ratio of two
\* cardinalities up to MaxDistinct occurs
DetectedRanges == {FlagRange(1, b) : b \in 1..MaxDistinct}

ExpectedRanges == {FlagRange(a, MaxDistinct) : a \in 1..MaxDistinct}

\* ------------------------------------------------------------------------
\* Dynamic typing and exceptions at the function boundaries
\* ------------------------------------------------------------------------
\* Python types of the values a caller passes; a value that is not of the
\* type the function is written for is held as <<>> next to its type name.
\* The int stands for a non-zero number (truthy, not iterable, no len()).
ListArgTypes == {"list", "NoneType", "int"}

TextArgTypes == {"str", "NoneType"}

ArgNames == {"expected_flags", "detected_flags", "justifications",
             "response_text", "unconstrained_response"}

\* the types run_llm_evaluation passes for a well-formed corpus row
NormalArgTypes ==
  [a \in ArgNames |->
     IF a \in {"response_text", "unconstrained_response"} THEN "str"
     ELSE "list"]

\* a value of the given type: one of vals for the type the function is
\* written for, <<>> held next to the type name otherwise
Typed(t, normal, vals) == IF t = normal THEN vals ELSE {<<>>}

\* an exception that leaves a function: str(e) of the exception
Raise(e) == [exception |-> e]

Raised(r) == "exception" \in DOMAIN r

MsgNotIterable(t) == IF t = "int" THEN "'int' object is not iterable"
                     ELSE "'NoneType' object is not iterable"

MsgNoLen(t) == IF t = "int" THEN "object of type 'int' has no len()"
               ELSE "object of type 'NoneType' has no len()"

MsgNlp == "nlp pipeline error"

\* variant: no isinstance check, so splitlines is called on any value
extract_exception_NoGuard(t_response, response_text, nlp_raises) ==
  IF t_response # "str"
  THEN "'NoneType' object has no attribute 'splitlines'"
  ELSE IF /\ nlp_raises
          /\ _extract_constrained_flags(response_text).detected_flags # <<>>
  THEN MsgNlp ELSE NoneVal

\* _normalize_text calls nlp once per matched flag line, so a failing nlp
\* raises out of the extraction exactly when some line is extracted; a
\* response that is not a string returns two empty lists before any call
extract_exception(t_response, response_text, nlp_raises) ==
  IF /\ t_response = "str"
     /\ nlp_raises
     /\ _extract_constrained_flags(response_text).detected_flags # <<>>
  THEN MsgNlp ELSE NoneVal

\* _extract_constrained_flags has no try/except: its exception propagates
Call_extract_constrained_flags(t_response, response_text, nlp_raises) ==
  LET e == extract_exception(t_response, response_text, nlp_raises)
  IN IF e # NoneVal THEN Raise(e)
     ELSE IF t_response # "str"
          THEN [detected_flags |-> <<>>, justifications |-> <<>>]
          ELSE _extract_constrained_flags(response_text)

\* try body of evaluate_assumption_recall: "not expected_flags" answers for
\* None and []; set() raises TypeError on a value that is not iterable
recall_exception(t_expected, t_detected, expected_flags) ==
  IF t_expected = "int" THEN MsgNotIterable(t_expected)
  ELSE IF t_expected = "list" /\ expected_flags # <<>> /\ t_detected # "list"
       THEN MsgNotIterable(t_detected)
  ELSE NoneVal

\* variant: an empty expected list scores 0.0
Call_evaluate_assumption_recall_EmptyZero(t_expected, t_detected, expected_flags, detected_flags) ==
  LET e == recall_exception(t_expected, t_detected, expected_flags)
  IN IF e # NoneVal
     THEN [recall_score |-> Zero, classification |-> "Error",
           success |-> FALSE, error_message |-> e]
     ELSE IF expected_flags = <<>>
     THEN [evaluate_assumption_recall(expected_flags, detected_flags)
             EXCEPT !.recall_score = Zero]
     ELSE evaluate_assumption_recall(expected_flags, detected_flags)

Call_evaluate_assumption_recall(t_expected, t_detected, expected_flags, detected_flags) ==
  LET e == recall_exception(t_expected, t_detected, expected_flags)
  IN IF e # NoneVal
     THEN [recall_score |-> Zero, classification |-> "Error",
           success |-> FALSE, error_message |-> e]
     ELSE evaluate_assumption_recall(expected_flags, detected_flags)

\* try body of evaluate_assumption_precision and of
\* evaluate_hallucinated_flag_rate: "not detected_flags" answers for None and
\* []; then set(expected_flags) and set(detected_flags) are built in turn
detected_first_exception(t_expected, t_detected, detected_flags) ==
  IF t_detected = "NoneType" \/ (t_detected = "list" /\ detected_flags = <<>>)
  THEN NoneVal
  ELSE IF t_expected # "list" THEN MsgNotIterable(t_expected)
  ELSE IF t_detected # "list" THEN MsgNotIterable(t_detected)
  ELSE NoneVal

\* variant: the two lists are taken in the other order
Call_evaluate_assumption_precision_swapped(t_expected, t_detected, expected_flags, detected_flags) ==
  LET e == detected_first_exception(t_expected, t_detected, detected_flags)
  IN IF e # NoneVal
     THEN [precision_score |-> Zero, classification |-> "Error",
           success |-> FALSE, error_message |-> e]
     ELSE IF detected_flags = <<>>
          THEN evaluate_assumption_precision(expected_flags, detected_flags)
          ELSE IF expected_flags = <<>>
               THEN evaluate_assumption_precision(detected_flags, detected_flags)
               ELSE evaluate_assumption_precision(detected_flags, expected_flags)

Call_evaluate_assumption_precision(t_expected, t_detected, expected_flags, detected_flags) ==
  LET e == detected_first_exception(t_expected, t_detected, detected_flags)
  IN IF e # NoneVal
     THEN [precision_score |-> Zero, classification |-> "Error",
           success |-> FALSE, error_message |-> e]
     ELSE evaluate_assumption_precision(expected_flags, detected_flags)

Call_evaluate_hallucinated_flag_rate(t_expected, t_detected, expected_flags, detected_flags) ==
  LET e == detected_first_exception(t_expected, t_detected, detected_flags)
  IN IF e # NoneVal
     THEN [hallucinated_rate |-> Zero, classification |-> "Error",
           success |-> FALSE, error_message |-> e]
     ELSE evaluate_hallucinated_flag_rate(expected_flags, detected_flags)

\* variant: no try/except around len(detected_flags)
Call_evaluate_total_flags_count_NoTry(t_detected, detected_flags) ==
  IF t_detected # "list" THEN Raise(MsgNoLen(t_detected))
  ELSE evaluate_total_flags_count(detected_flags)

\* len() raises TypeError on None and on a number
Call_evaluate_total_flags_count(t_detected, detected_flags) ==
  IF t_detected # "list"
  THEN [total_flags_count |-> 0, success |-> FALSE,
        error_message |-> MsgNoLen(t_detected)]
  ELSE evaluate_total_flags_count(detected_flags)

\* the extraction runs inside the try, then set(expected_flags) is built
coverage_exception(t_response, t_expected, response_text, nlp_raises) ==
  LET e == extract_exception(t_response, response_text, nlp_raises)
  IN IF e # NoneVal THEN e
     ELSE IF t_expected # "list" THEN MsgNotIterable(t_expected)
     ELSE NoneVal

Call_evaluate_coverage_all_flags_before_answering(t_response, t_expected, response_text, expected_flags, nlp_raises) ==
  LET e == coverage_exception(t_response, t_expected, response_text, nlp_raises)
  IN IF e # NoneVal
     THEN [all_flags_covered_before_answer |-> FALSE,
           success |-> FALSE, error_message |-> e]
     ELSE evaluate_coverage_all_flags_before_answering(response_text,
                                                       expected_flags)

\* a response that is not a string is answered before any line is read; no
\* statement of the validator raises
Call_evaluate_format_compliance(t_response, response_text) ==
  IF t_response # "str"
  THEN ComplianceResult(FALSE, Details("Response is not a string.", 0, 0))
  ELSE evaluate_format_compliance(response_text)

\* isinstance(..., str) fails first for a value that is not a string
Call_evaluate_hedging_count(t_unconstrained, unconstrained_llm_response) ==
  IF t_unconstrained # "str"
  THEN [hedging_count |-> 0, success |-> TRUE,
        error_message |-> MsgHedgingEmpty]
  ELSE evaluate_hedging_count(unconstrained_llm_response)

\* "not justifications" answers for None and []; iterating a number raises
\* TypeError; nlp_model is called on every justification that is not blank
justification_exception(t_justifications, justifications, nlp_raises) ==
  IF t_justifications = "int" THEN MsgNotIterable(t_justifications)
  ELSE IF /\ t_justifications = "list"
          /\ nlp_raises
          /\ ValidCount(justifications) > 0
       THEN MsgNlp
  ELSE NoneVal

Call_evaluate_justification_conciseness(t_justifications, justifications, nlp_raises) ==
  LET e == justification_exception(t_justifications, justifications, nlp_raises)
  IN IF e # NoneVal
     THEN [average_words_per_justification |-> Zero,
           classification |-> "Error",
           success |-> FALSE, error_message |-> e]
     ELSE evaluate_justification_conciseness(justifications)

\* re.search raises TypeError on a value that is not a string; nlp is called
\* when the answer text is not empty
answer_exception(t_response, response_text, nlp_raises) ==
  IF t_response # "str" THEN "expected string or bytes-like object"
  ELSE IF nlp_raises /\ _extract_answer_text(response_text) # <<>> THEN MsgNlp
  ELSE NoneVal

\* the message is f"Error evaluating answer conciseness: {e}"
Call_evaluate_answer_conciseness(t_response, response_text, nlp_raises) ==
  LET e == answer_exception(t_response, response_text, nlp_raises)
  IN IF e # NoneVal
     THEN [word_count |-> "N/A", sentence_count |-> "N/A",
           classification |-> "N/A",
           success |-> FALSE, error_message |-> e]
     ELSE evaluate_answer_conciseness(response_text)

\* ------------------------------------------------------------------------
\* State
\* ------------------------------------------------------------------------
\* extract_calls: how often _extract_constrained_flags was invoked for the
\* current response
VARIABLES input, response_text, expected_flags, detected_flags,
          justifications, eval_results, todo,
          arg_type, nlp_raises, unconstrained_response,
          corpus, report, run, extract_calls

vars == <<input, response_text, expected_flags, detected_flags,
          justifications, eval_results, todo,
          arg_type, nlp_raises, unconstrained_response,
          corpus, report, run, extract_calls>>

\* what the calls of one response leave alone: the environment and the batch
env == <<arg_type, nlp_raises, unconstrained_response, corpus, report>>

\* a call sequence that is not part of a batch
NoBatch ==
  /\ arg_type = NormalArgTypes
  /\ nlp_raises = FALSE
  /\ unconstrained_response = <<>>
  /\ corpus = <<>>
  /\ report = <<>>
  /\ run = "running"
  /\ extract_calls = 0

Has(k) == k \in DOMAIN eval_results

\* the calls run_llm_evaluation makes for one response entry, in order
RunCalls == <<"extract", "recall", "precision", "total", "format",
              "hallucination", "coverage">>

Init ==
  /\ input \in Inputs
  /\ response_text = Render(input)
  /\ expected_flags \in ExpectedLists
  /\ detected_flags = <<>>
  /\ justifications = <<>>
  /\ eval_results = <<>>
  /\ todo = RunCalls
  /\ NoBatch

InitOrder ==
  /\ input \in OrderInputs
  /\ response_text = Render(input)
  /\ expected_flags \in ExpectedLists
  /\ detected_flags = <<>>
  /\ justifications = <<>>
  /\ eval_results = <<>>
  /\ todo = RunCalls
  /\ NoBatch

\* evaluate_hedging_count called on a text, or on a value that is no string
InitHedging ==
  /\ arg_type \in {NormalArgTypes,
                   [NormalArgTypes EXCEPT !["unconstrained_response"] = "NoneType"]}
  /\ unconstrained_response \in
       Typed(arg_type["unconstrained_response"], "str", HedgingTexts)
  /\ input = NoInput
  /\ response_text = <<>>
  /\ expected_flags = <<>>
  /\ detected_flags = <<>>
  /\ justifications = <<>>
  /\ eval_results = <<>>
  /\ todo = <<"hedging">>
  /\ nlp_raises = FALSE
  /\ corpus = <<>>
  /\ report = <<>>
  /\ run = "running"
  /\ extract_calls = 0

\* evaluate_justification_conciseness called on a list of justifications
InitJustifications ==
  /\ justifications \in SeqsUpTo(JustificationTexts, MaxJust)
  /\ input = NoInput
  /\ response_text = <<>>
  /\ expected_flags = <<>>
  /\ detected_flags = <<>>
  /\ eval_results = <<>>
  /\ todo = <<"justification">>
  /\ NoBatch

InitMetrics ==
  /\ input = NoInput
  /\ response_text = <<>>
  /\ expected_flags \in FlagLists \cup ExpectedRanges
  /\ detected_flags \in FlagLists \cup DetectedRanges
  /\ justifications = <<>>
  /\ eval_results = <<>>
  /\ todo = <<"recall", "precision", "total", "hallucination">>
  /\ NoBatch

\* _extract_constrained_flags called on a response, or on a value that is no
\* string, with an nlp pipeline that may raise
InitExtract ==
  /\ arg_type \in {[NormalArgTypes EXCEPT !["response_text"] = t] :
                     t \in TextArgTypes}
  /\ input \in (IF arg_type["response_text"] = "str" THEN OrderInputs
                ELSE {NoInput})
  /\ response_text = Render(input)
  /\ nlp_raises \in BOOLEAN
  /\ expected_flags = <<>>
  /\ detected_flags = <<>>
  /\ justifications = <<>>
  /\ eval_results = <<>>
  /\ todo = <<"extract">>
  /\ unconstrained_response = <<>>
  /\ corpus = <<>>
  /\ report = <<>>
  /\ run = "running"
  /\ extract_calls = 0

\* evaluate_format_compliance and evaluate_answer_conciseness called on a
\* response
InitEdge ==
  /\ input \in EdgeInputs
  /\ response_text = Render(input)
  /\ expected_flags = <<>>
  /\ detected_flags = <<>>
  /\ justifications = <<>>
  /\ eval_results = <<>>
  /\ todo = <<"format", "answer">>
  /\ NoBatch

Called(name) ==
  /\ run = "running"
  /\ todo # <<>>
  /\ Head(todo) = name
  /\ todo' = Tail(todo)

\* run_llm_evaluation line 155: the extraction is called outside any try, so
\* an exception it raises ends the run
Extract ==
  /\ Called("extract")
  /\ LET r == Call_extract_constrained_flags(arg_type["response_text"],
                                             response_text, nlp_raises)
     IN IF Raised(r)
        THEN /\ run' = "crashed"
             /\ UNCHANGED <<detected_flags, justifications>>
        ELSE /\ run' = run
             /\ detected_flags' = r.detected_flags
             /\ justifications' = r.justifications
  /\ extract_calls' = extract_calls + 1
  /\ UNCHANGED <<input, response_text, expected_flags, eval_results, env>>

\* a result that is an exception leaves the caller too; the coverage metric
\* calls _extract_constrained_flags itself (coverage.py:22-24), the other
\* metrics take the lists they are given
Record(key, result) ==
  /\ IF Raised(result)
     THEN run' = "crashed" /\ eval_results' = eval_results
     ELSE run' = run /\ eval_results' = eval_results @@ (key :> result)
  /\ extract_calls' = extract_calls +
       (IF key = "coverage_all_flags_before_answering" THEN 1 ELSE 0)
  /\ UNCHANGED <<input, response_text, expected_flags, detected_flags,
                 justifications, env>>

EvaluateRecall ==
  /\ Called("recall")
  /\ Record("assumption_recall",
            Call_evaluate_assumption_recall(
              arg_type["expected_flags"], arg_type["detected_flags"],
              expected_flags, detected_flags))

EvaluatePrecision ==
  /\ Called("precision")
  /\ Record("assumption_precision",
            Call_evaluate_assumption_precision(
              arg_type["expected_flags"], arg_type["detected_flags"],
              expected_flags, detected_flags))

EvaluateTotalFlagsCount ==
  /\ Called("total")
  /\ Record("total_flags_count",
            Call_evaluate_total_flags_count(arg_type["detected_flags"],
                                            detected_flags))

EvaluateFormatCompliance ==
  /\ Called("format")
  /\ Record("format_compliance",
            Call_evaluate_format_compliance(arg_type["response_text"],
                                            response_text))

EvaluateHallucinatedFlagRate ==
  /\ Called("hallucination")
  /\ Record("hallucinated_flag_rate",
            Call_evaluate_hallucinated_flag_rate(
              arg_type["expected_flags"], arg_type["detected_flags"],
              expected_flags, detected_flags))

EvaluateCoverage ==
  /\ Called("coverage")
  /\ Record("coverage_all_flags_before_answering",
            Call_evaluate_coverage_all_flags_before_answering(
              arg_type["response_text"], arg_type["expected_flags"],
              response_text, expected_flags, nlp_raises))

EvaluateJustificationConciseness ==
  /\ Called("justification")
  /\ Record("justification_conciseness",
            Call_evaluate_justification_conciseness(
              arg_type["justifications"], justifications, nlp_raises))

EvaluateAnswerConciseness ==
  /\ Called("answer")
  /\ Record("answer_conciseness",
            Call_evaluate_answer_conciseness(arg_type["response_text"],
                                             response_text, nlp_raises))

EvaluateHedgingCount ==
  /\ Called("hedging")
  /\ Record("hedging_count",
            Call_evaluate_hedging_count(arg_type["unconstrained_response"],
                                        unconstrained_response))

Next ==
  \/ Extract
  \/ EvaluateRecall
  \/ EvaluatePrecision
  \/ EvaluateTotalFlagsCount
  \/ EvaluateFormatCompliance
  \/ EvaluateHallucinatedFlagRate
  \/ EvaluateCoverage

NextMetrics ==
  \/ EvaluateRecall
  \/ EvaluatePrecision
  \/ EvaluateTotalFlagsCount
  \/ EvaluateHallucinatedFlagRate

\* every metric function called directly, on values of any type and with an
\* nlp pipeline that may raise
ErrorResponses ==
  { NoInput,
    [pre |-> <<HdrPlain>>, block |-> <<>>, post |-> <<AnsPlain>>],
    [pre |-> <<HdrPlain>>, block |-> <<Item(<<"1">>, TxtBirds, <<"j">>)>>,
     post |-> <<AnsPlain>>] }

InitErrors ==
  /\ arg_type \in [ArgNames -> ListArgTypes \cup TextArgTypes]
  /\ \A a \in {"expected_flags", "detected_flags", "justifications"} :
       arg_type[a] \in ListArgTypes
  /\ \A a \in {"response_text", "unconstrained_response"} :
       arg_type[a] \in TextArgTypes
  /\ nlp_raises \in BOOLEAN
  /\ input \in Typed(arg_type["response_text"], "str", ErrorResponses)
               \cup {NoInput}
  /\ arg_type["response_text"] # "str" => input = NoInput
  /\ response_text = Render(input)
  /\ expected_flags \in Typed(arg_type["expected_flags"], "list",
                              {<<>>, <<WordBird>>, <<WordBird, WordFish>>})
  /\ detected_flags \in Typed(arg_type["detected_flags"], "list",
                              {<<>>, <<WordBird>>, <<WordCat>>})
  /\ justifications \in Typed(arg_type["justifications"], "list",
                              {<<>>, << <<"j">> >>, << <<>>, <<" ">> >>})
  /\ unconstrained_response \in Typed(arg_type["unconstrained_response"], "str",
                                      {<<>>, <<"o","f","t","e","n">>})
  /\ eval_results = <<>>
  /\ todo = <<"recall", "precision", "total", "format", "justification",
              "hallucination", "coverage", "answer", "hedging">>
  /\ corpus = <<>>
  /\ report = <<>>
  /\ run = "running"
  /\ extract_calls = 0

NextErrors ==
  \/ EvaluateRecall
  \/ EvaluatePrecision
  \/ EvaluateTotalFlagsCount
  \/ EvaluateFormatCompliance
  \/ EvaluateJustificationConciseness
  \/ EvaluateHallucinatedFlagRate
  \/ EvaluateCoverage
  \/ EvaluateAnswerConciseness
  \/ EvaluateHedgingCount

SpecErrors == InitErrors /\ [][NextErrors]_vars

\* ------------------------------------------------------------------------
\* The batch: the loop of run_llm_evaluation over the loaded responses
\* ------------------------------------------------------------------------
\* the calls of one loop iteration, in order, and the write that ends it
BatchCalls == <<"extract", "recall", "precision", "total", "format",
                "justification", "hallucination", "coverage", "hedging",
                "write">>

\* a row of the responses file with the ground truth of its query; a short
\* row leaves the response column None; nlp_raises: the nlp pipeline raises
\* on the text of this row.  The ground truth of the QueryID is either
\* absent from the ground truth file ("no row"), or its ExpectedAssumptions
\* column is not JSON ("not JSON"), or it is a JSON list ("list"); flags is
\* the content of the column.
ResponseEntry(in, t, g, f) ==
  [constrained_response |-> in, t_response |-> t,
   unconstrained_response |-> <<"I","t"," ","i","s"," ","o","f","t","e","n",".">>,
   ground_truth |-> g, nlp_raises |-> f]

GroundTruths ==
  { [kind |-> k, flags |-> IF k = "no row" THEN <<>> ELSE <<TxtBirds>>] :
      k \in {"no row", "not JSON", "list"} }

ResponseEntries ==
  { ResponseEntry(in, "str", g, f) :
      in \in ErrorResponses, g \in GroundTruths, f \in BOOLEAN }
  \cup { ResponseEntry(NoInput, "NoneType", g, f) :
           g \in GroundTruths, f \in BOOLEAN }

\* variant: the column of a row that is not JSON is kept as it is
ground_truth_map_get_KeepRaw(ground_truth) ==
  CASE ground_truth.kind = "no row" -> <<>>
    [] OTHER ->
         [i \in 1..Len(ground_truth.flags) |->
            _normalize_text(ground_truth.flags[i])]

\* ground_truth_map.get(query_id, []) on the map of
\* _load_ground_truth_assumptions: [] for a QueryID without a row (line 149),
\* [] for a row whose column json.loads rejects (lines 85-87), and the
\* normalized entries of the list otherwise (line 84)
ground_truth_map_get(ground_truth) ==
  CASE ground_truth.kind = "no row" -> <<>>
    [] ground_truth.kind = "not JSON" -> <<>>
    [] OTHER ->
         [i \in 1..Len(ground_truth.flags) |->
            _normalize_text(ground_truth.flags[i])]

InitBatch ==
  /\ corpus \in SeqsUpTo(ResponseEntries, MaxResponses)
  /\ report = <<>>
  /\ run = "running"
  /\ extract_calls = 0
  /\ todo = <<>>
  /\ input = NoInput
  /\ response_text = <<>>
  /\ expected_flags = <<>>
  /\ detected_flags = <<>>
  /\ justifications = <<>>
  /\ eval_results = <<>>
  /\ arg_type = NormalArgTypes
  /\ nlp_raises = FALSE
  /\ unconstrained_response = <<>>

\* lines 138-152: the next row of llm_responses is taken, in input order
NextEntry ==
  /\ run = "running"
  /\ todo = <<>>
  /\ Len(report) < Len(corpus)
  /\ LET response_entry == corpus[Len(report) + 1]
     IN /\ input' = response_entry.constrained_response
        /\ response_text' = Render(response_entry.constrained_response)
        /\ arg_type' = [NormalArgTypes EXCEPT
                          !["response_text"] = response_entry.t_response]
        /\ unconstrained_response' = response_entry.unconstrained_response
        /\ expected_flags' = ground_truth_map_get(response_entry.ground_truth)
        /\ nlp_raises' = response_entry.nlp_raises
  /\ detected_flags' = <<>>
  /\ justifications' = <<>>
  /\ eval_results' = <<>>
  /\ todo' = BatchCalls
  /\ extract_calls' = 0
  /\ UNCHANGED <<corpus, report, run>>

\* line 189: the record of the response is appended to the report
WriteRecord ==
  /\ Called("write")
  /\ report' = Append(report, [entry |-> Len(report) + 1,
                               detected_flags |-> detected_flags,
                               results |-> eval_results])
  /\ UNCHANGED <<input, response_text, expected_flags, detected_flags,
                 justifications, eval_results, arg_type, nlp_raises,
                 unconstrained_response, corpus, run, extract_calls>>

\* line 192: the loop is over
Finish ==
  /\ run = "running"
  /\ todo = <<>>
  /\ Len(report) = Len(corpus)
  /\ run' = "done"
  /\ UNCHANGED <<input, response_text, expected_flags, detected_flags,
                 justifications, eval_results, todo, env, extract_calls>>

NextBatch ==
  \/ NextEntry
  \/ Extract
  \/ EvaluateRecall
  \/ EvaluatePrecision
  \/ EvaluateTotalFlagsCount
  \/ EvaluateFormatCompliance
  \/ EvaluateJustificationConciseness
  \/ EvaluateHallucinatedFlagRate
  \/ EvaluateCoverage
  \/ EvaluateHedgingCount
  \/ WriteRecord
  \/ Finish

SpecBatch == InitBatch /\ [][NextBatch]_vars

Spec == Init /\ [][Next]_vars

SpecMetrics == InitMetrics /\ [][NextMetrics]_vars

SpecOrder == InitOrder /\ [][Next]_vars

SpecExtract == InitExtract /\ [][Extract]_vars

SpecEdge ==
  InitEdge /\ [][EvaluateFormatCompliance \/ EvaluateAnswerConciseness]_vars

SpecHedging == InitHedging /\ [][EvaluateHedgingCount]_vars

SpecJustifications == InitJustifications /\ [][EvaluateJustificationConciseness]_vars

\* ------------------------------------------------------------------------
\* Properties
\* ------------------------------------------------------------------------
Done == todo = <<>>

Abs(x) == IF x < 0 THEN -x ELSE x

Result(k) == eval_results[k]

\* the input is a response of run_llm_evaluation and the extraction step ran
Extracted == input # NoInput /\ todo # RunCalls

HeaderPres == { <<HdrPlain>>, <<<<>>, HdrUpper>> }

AnswerPosts == { <<AnsPlain>>, <<<<>>, AnsUpper>> }

\* C1 (as stated): whenever detected is non-empty, hallucinated_rate equals
\* 1 - precision_score for the same two lists.
C1_RateIsOneMinusPrecision ==
  (Done /\ detected_flags # <<>>) =>
    RatEq(Result("hallucinated_flag_rate").hallucinated_rate,
          RatCompl(Result("assumption_precision").precision_score))

\* C1 (amended): whenever detected is non-empty, hallucinated_rate is a
\* number of hundredths that lies within 0.005 of 1 - precision_score, that
\* is, 1 - precision_score rounded to two decimals.
C1_RateIsRoundedComplement ==
  (Done /\ detected_flags # <<>>) =>
    LET h == Result("hallucinated_flag_rate").hallucinated_rate
        c == RatCompl(Result("assumption_precision").precision_score)
    IN /\ h.d = 100
       /\ 2 * Abs(h.n * c.d - 100 * c.n) <= c.d

\* a run on a non-empty detected list where rounding changed the value
C1_Witness ==
  /\ Done
  /\ detected_flags # <<>>
  /\ Result("assumption_precision").precision_score = Rat(2, 3)
  /\ Result("hallucinated_flag_rate").hallucinated_rate = Rat(33, 100)

\* C2: for a non-empty expected list, coverage reports
\* all_flags_covered_before_answer = TRUE exactly when recall on the flags
\* extracted from the same response reports recall_score = 1.0.
C2_CoverageIffFullRecall ==
  (Done /\ input # NoInput /\ expected_flags # <<>>) =>
    (Result("coverage_all_flags_before_answering").all_flags_covered_before_answer
       <=> RatEq(Result("assumption_recall").recall_score, One))

\* a response covering a ground truth that lists the same flag twice
C2_Witness ==
  /\ Done
  /\ input # NoInput
  /\ expected_flags = <<WordBird, WordBird>>
  /\ Result("coverage_all_flags_before_answering").all_flags_covered_before_answer
  /\ Result("assumption_recall").recall_score = Rat(1, 1)
  /\ Len(detected_flags) = 2

\* C3: with expected empty recall is 1.0 / N/A whatever was detected; with
\* detected empty precision is 1.0 and hallucination rate 0.0, both N/A,
\* whatever was expected; the three results have success = TRUE.
C3_EmptySetConventions ==
  Done =>
    /\ expected_flags = <<>> =>
         /\ Result("assumption_recall").recall_score = One
         /\ Result("assumption_recall").classification = "N/A (No expected flags)"
         /\ Result("assumption_recall").success
    /\ detected_flags = <<>> =>
         /\ Result("assumption_precision").precision_score = One
         /\ Result("assumption_precision").classification = "N/A (No flags detected)"
         /\ Result("assumption_precision").success
         /\ Result("hallucinated_flag_rate").hallucinated_rate = Zero
         /\ Result("hallucinated_flag_rate").classification = "N/A (No flags detected)"
         /\ Result("hallucinated_flag_rate").success

\* the three metrics were run with nothing detected against a non-empty
\* ground truth
C3_Witness ==
  /\ Done
  /\ input = NoInput
  /\ detected_flags = <<>>
  /\ Len(expected_flags) = 2
  /\ Result("assumption_precision").success
  /\ Result("hallucinated_flag_rate").success
  /\ Result("assumption_recall").classification = "Low"

\* the response is an Assumptions header, lines of the form
\* '<index>. <flag text>. (<justification>)' and an Answer header
RoundTripInput ==
  /\ input.pre \in HeaderPres
  /\ input.post \in AnswerPosts
  /\ \A i \in 1..Len(input.block) : input.block[i].kind = "item"

\* C4 (as stated): for such a response extraction returns one normalized
\* flag and one raw justification per line, in line order, the
\* justification being the text inside the parentheses; the two lists have
\* the same length for every input.
C4_RoundTrip ==
  Extracted =>
    /\ Len(detected_flags) = Len(justifications)
    /\ RoundTripInput =>
         /\ detected_flags =
              [i \in 1..Len(input.block) |-> _normalize_text(input.block[i].flag)]
         /\ justifications =
              [i \in 1..Len(input.block) |-> input.block[i].just]

\* C4 (amended): the same for lines whose justification has at least one
\* character, the i-th justification being the text inside the parentheses
\* with surrounding whitespace stripped; the two lists have the same length
\* for every input.
C4_RoundTripNonEmptyStripped ==
  Extracted =>
    /\ Len(detected_flags) = Len(justifications)
    /\ (RoundTripInput /\ \A i \in 1..Len(input.block) : input.block[i].just # <<>>) =>
         /\ detected_flags =
              [i \in 1..Len(input.block) |-> _normalize_text(input.block[i].flag)]
         /\ justifications =
              [i \in 1..Len(input.block) |-> Strip(input.block[i].just)]

\* two lines extracted in order, the first normalized to another string,
\* the second with a padded justification
C4_Witness ==
  /\ Extracted
  /\ RoundTripInput
  /\ Len(input.block) = 2
  /\ detected_flags = <<WordBird, WordFish>>
  /\ justifications = <<<<"j">>, <<"k">>>>
  /\ input.block[1].flag # WordBird

\* the smallest element of a non-empty set of numbers
Min(S) == CHOOSE i \in S : \A j \in S : i <= j

\* the flag block of a response: the lines strictly between the first line
\* starting with "Assumptions:" and the first line after it starting with
\* "Answer:" (the end of the text when there is none)
FlagBlock(lines) ==
  LET H == {i \in 1..Len(lines) : IsAssumptionsLine(lines[i])}
  IN IF H = {} THEN <<>>
     ELSE LET f == Min(H)
              A == {i \in (f + 1)..Len(lines) : IsAnswerLine(lines[i])}
              a == IF A = {} THEN Len(lines) + 1 ELSE Min(A)
          IN SubSeq(lines, f + 1, a - 1)

IsBlank(line) == Strip(line) = <<>>

IsNumbered(line) == NumMatch(Strip(line)).matched

RECURSIVE NumberedIndices(_)
NumberedIndices(block) ==
  IF block = <<>> THEN <<>>
  ELSE IF IsNumbered(Head(block))
       THEN <<NumMatch(Strip(Head(block))).current_num>> \o NumberedIndices(Tail(block))
       ELSE NumberedIndices(Tail(block))

\* positions of the non-blank lines of a sequence of lines
NonBlank(lines) == {i \in 1..Len(lines) : ~IsBlank(lines[i])}

\* the first non-blank line of the response starts with "Assumptions:"
HeaderFirst ==
  LET lines == SplitLines(response_text)
  IN NonBlank(lines) # {} /\ IsAssumptionsLine(lines[Min(NonBlank(lines))])

\* C5: the numbered lines of the flag block are accepted only if their
\* indices are exactly 1, 2, 3, ... in order; when the top-to-bottom scan of
\* the block comes to a numbered line whose index differs from the expected
\* one (the header is the first non-blank line and no unnumbered text
\* precedes the first numbered line), validation ends with
\* compliant = FALSE and a reason naming the expected and the found number.
C5_SequentialNumbering ==
  Has("format_compliance") =>
    LET r == Result("format_compliance")
        block == FlagBlock(SplitLines(response_text))
        nums == NumberedIndices(block)
        bad == {i \in 1..Len(nums) : nums[i] # i}
    IN /\ r.compliant => bad = {}
       /\ (/\ HeaderFirst
           /\ bad # {}
           /\ IsNumbered(block[Min(NonBlank(block))])) =>
            /\ ~r.compliant
            /\ r.details = Details(MsgNotSequential, Min(bad), nums[Min(bad)])

\* C6: a flag block with a non-blank line that is not a numbered item makes
\* the response non-compliant, before as well as after numbered items.
C6_UnnumberedLineFails ==
  Has("format_compliance") =>
    LET block == FlagBlock(SplitLines(response_text))
    IN (\E i \in NonBlank(block) : ~IsNumbered(block[i])) =>
         ~Result("format_compliance").compliant

\* C7: a compliant response has "Assumptions:" (in any letter case) at the
\* start of its first non-blank line.
C7_CompliantStartsWithHeader ==
  (Has("format_compliance") /\ Result("format_compliance").compliant) => HeaderFirst

\* a compliant response whose upper-case header follows a blank line
C7_Witness ==
  /\ Has("format_compliance")
  /\ Result("format_compliance").compliant
  /\ input.pre = <<<<>>, HdrUpper>>
  /\ Len(input.block) = 2
  /\ detected_flags = <<WordBird, WordFish>>

\* C8: a response without any line starting with "Answer:" is
\* non-compliant, whatever its flag block holds.
C8_NoAnswerFails ==
  (/\ Has("format_compliance")
   /\ \A i \in 1..Len(SplitLines(response_text)) :
        ~IsAnswerLine(SplitLines(response_text)[i])) =>
    ~Result("format_compliance").compliant

\* the response that is only the Assumptions header was validated
C8_Witness ==
  /\ Has("format_compliance")
  /\ response_text = HdrPlain
  /\ ~Result("format_compliance").compliant
  /\ Result("format_compliance").details.msg = MsgNoAnswerNoContent

\* the response is an Assumptions header, blank lines only, an Answer header
EmptyBlockInput ==
  /\ input.pre \in HeaderPres
  /\ input.post \in AnswerPosts
  /\ \A i \in 1..Len(input.block) : input.block[i] = Text(<<>>)

\* C9: a response with no non-blank line in its flag block is compliant and
\* extracts to two empty lists; with an empty expected list recall and
\* precision are then both 1.0 with their N/A classifications.
C9_EmptyBlock ==
  (Done /\ EmptyBlockInput) =>
    /\ Result("format_compliance").compliant
    /\ detected_flags = <<>>
    /\ justifications = <<>>
    /\ expected_flags = <<>> =>
         /\ Result("assumption_recall").recall_score = One
         /\ Result("assumption_recall").classification = "N/A (No expected flags)"
         /\ Result("assumption_precision").precision_score = One
         /\ Result("assumption_precision").classification = "N/A (No flags detected)"

\* such a response with one blank line between the headers, evaluated
\* against an empty ground truth
C9_Witness ==
  /\ Done
  /\ EmptyBlockInput
  /\ Len(input.block) = 1
  /\ expected_flags = <<>>
  /\ Result("format_compliance").compliant
  /\ Result("assumption_recall").recall_score = One

\* a numbered line of the Assumptions block, with a justification in
\* parentheses or without one, whose normalized flag text is e
NumberedLineFor(e) ==
  \E i \in 1..Len(input.block) :
    /\ \/ input.block[i].kind = "bare"
       \/ input.block[i].kind = "item" /\ input.block[i].just # <<>>
    /\ _normalize_text(input.block[i].flag) = e

\* C10: coverage is TRUE whenever every expected flag is the normalized
\* text of some numbered line of the Assumptions block, lines without a
\* parenthesized justification included.
C10_CoveredByNumberedLines ==
  (/\ Has("coverage_all_flags_before_answering")
   /\ input.pre \in HeaderPres
   /\ \A k \in 1..Len(expected_flags) : NumberedLineFor(expected_flags[k])) =>
    Result("coverage_all_flags_before_answering").all_flags_covered_before_answer

\* the exception, if any, that the try body of the metric recorded under key
\* k meets on the arguments of the current state (NoneVal: none)
BodyException(k) ==
  CASE k = "assumption_recall" ->
         recall_exception(arg_type["expected_flags"],
                          arg_type["detected_flags"], expected_flags)
    [] k \in {"assumption_precision", "hallucinated_flag_rate"} ->
         detected_first_exception(arg_type["expected_flags"],
                                  arg_type["detected_flags"], detected_flags)
    [] k = "total_flags_count" ->
         IF arg_type["detected_flags"] # "list"
         THEN MsgNoLen(arg_type["detected_flags"]) ELSE NoneVal
    [] k = "coverage_all_flags_before_answering" ->
         coverage_exception(arg_type["response_text"],
                            arg_type["expected_flags"],
                            response_text, nlp_raises)
    [] k = "justification_conciseness" ->
         justification_exception(arg_type["justifications"], justifications,
                                 nlp_raises)
    [] k = "answer_conciseness" ->
         answer_exception(arg_type["response_text"], response_text, nlp_raises)
    [] OTHER -> NoneVal

MetricKeys ==
  {"assumption_recall", "assumption_precision", "total_flags_count",
   "format_compliance", "justification_conciseness", "hallucinated_flag_rate",
   "coverage_all_flags_before_answering", "answer_conciseness",
   "hedging_count"}

\* C11: no metric function raises to its caller: on arguments of any type
\* and with a failing normalizer every call returns a result record, and
\* when the body of the function met an exception that record has
\* success = FALSE and an error_message that is not None.
C11_MetricsNeverRaise ==
  /\ run # "crashed"
  /\ Done => DOMAIN eval_results = MetricKeys
  /\ \A k \in DOMAIN eval_results :
       /\ {"success", "error_message"} \subseteq DOMAIN Result(k)
       /\ Result(k).success \in BOOLEAN
       /\ BodyException(k) # NoneVal =>
            (Result(k).success = FALSE /\ Result(k).error_message # NoneVal)

\* every function was called with a failing nlp on a response that has a
\* flag line, with an expected value and a detected value that are not lists
C11_Witness ==
  /\ Done
  /\ todo = <<>>
  /\ nlp_raises
  /\ detected_flags = <<>> /\ arg_type["detected_flags"] = "int"
  /\ arg_type["expected_flags"] = "NoneType"
  /\ arg_type["justifications"] = "list" /\ justifications = << <<"j">> >>
  /\ arg_type["unconstrained_response"] = "NoneType"
  /\ DOMAIN eval_results = MetricKeys
  /\ ~Result("total_flags_count").success
  /\ ~Result("assumption_precision").success
  /\ ~Result("coverage_all_flags_before_answering").success
  /\ Result("coverage_all_flags_before_answering").error_message = MsgNlp
  /\ ~Result("justification_conciseness").success
  /\ ~Result("answer_conciseness").success
  /\ Result("assumption_recall").success
  /\ Result("format_compliance").success

\* C12: once the corpus is loaded the responses are processed in input order
\* and the run ends with one result record per response; a failure in a
\* metric or in the extraction step of one response never ends the run
\* before the remaining responses are evaluated.  (The finite-run form of
\* the claim: no run crashes, records are in input order, and a run that is
\* over has one record per response.)
C12_BatchCompletion ==
  /\ run # "crashed"
  /\ \A i \in 1..Len(report) : report[i].entry = i
  /\ run = "done" => Len(report) = Len(corpus)

\* the three cardinalities the set metrics are made of
NExpected == Cardinality(ToSet(expected_flags))

NDetected == Cardinality(ToSet(detected_flags))

NCommon == Cardinality(ToSet(expected_flags) \cap ToSet(detected_flags))

\* C13: for a non-empty expected list recall_score is
\* |set(expected) & set(detected)| / |set(expected)|, classified High when
\* it is at least 0.8, Medium when at least 0.5 and below 0.8, Low otherwise.
C13_RecallScoreAndClass ==
  (Has("assumption_recall") /\ expected_flags # <<>>) =>
    LET r == Result("assumption_recall")
    IN /\ r.success
       /\ r.recall_score.d # 0
       /\ r.recall_score.n * NExpected = NCommon * r.recall_score.d
       /\ r.classification =
            (IF 10 * NCommon >= 8 * NExpected THEN "High"
             ELSE IF 10 * NCommon >= 5 * NExpected THEN "Medium"
             ELSE "Low")

\* recall of exactly 0.8 (4 of 5 expected flags) was classified High
C13_Witness ==
  /\ Has("assumption_recall")
  /\ NExpected = 5
  /\ NCommon = 4
  /\ Result("assumption_recall").classification = "High"

\* C14: for a non-empty detected list precision_score is
\* |set(expected) & set(detected)| / |set(detected)| with the thresholds of
\* recall; with expected empty and detected non-empty precision is 0.0 / Low
\* while recall is 1.0 / N/A and the hallucination rate is 1.0 / High.
C14_PrecisionScoreAndClass ==
  (Done /\ detected_flags # <<>>) =>
    LET p == Result("assumption_precision")
    IN /\ p.success
       /\ p.precision_score.d # 0
       /\ p.precision_score.n * NDetected = NCommon * p.precision_score.d
       /\ p.classification =
            (IF 10 * NCommon >= 8 * NDetected THEN "High"
             ELSE IF 10 * NCommon >= 5 * NDetected THEN "Medium"
             ELSE "Low")
       /\ expected_flags = <<>> =>
            /\ p.precision_score.n = 0
            /\ p.classification = "Low"
            /\ RatEq(Result("assumption_recall").recall_score, One)
            /\ Result("assumption_recall").classification
                 = "N/A (No expected flags)"
            /\ Result("hallucinated_flag_rate").hallucinated_rate = Rat(100, 100)
            /\ Result("hallucinated_flag_rate").classification = "High"

\* an empty ground truth against two detected flags, one of them twice
C14_Witness ==
  /\ Done
  /\ expected_flags = <<>>
  /\ detected_flags = <<WordBird, WordCat, WordBird>>
  /\ Result("assumption_precision").precision_score = Rat(0, 2)
  /\ Result("assumption_precision").classification = "Low"
  /\ Result("hallucinated_flag_rate").classification = "High"

\* the class the thresholds of the hallucination rate give to n / d
RateClass(n, d) ==
  IF 10 * n > 5 * d THEN "High"
  ELSE IF 10 * n > d THEN "Medium"
  ELSE "Low"

NHallucinated == Cardinality(ToSet(detected_flags) \ ToSet(expected_flags))

\* C15 (as stated): for a non-empty detected list the class is that of the
\* exact ratio r = |detected \ expected| / |detected| (High above 0.5,
\* Medium above 0.1 up to 0.5, Low up to 0.1) and it always agrees with the
\* reported hallucinated_rate value.
C15_ClassAgreesWithReported ==
  (Has("hallucinated_flag_rate") /\ detected_flags # <<>>) =>
    LET h == Result("hallucinated_flag_rate")
    IN /\ h.classification = RateClass(NHallucinated, NDetected)
       /\ h.classification = RateClass(h.hallucinated_rate.n,
                                       h.hallucinated_rate.d)

\* C15 (amended): the class is that of the exact ratio, a ratio of exactly
\* 0.5 being Medium; the reported value is the ratio rounded to two
\* decimals, and its class differs from the reported one only when the
\* ratio lies above a threshold and is reported as that threshold (0.1 with
\* Medium, 0.5 with High).
C15_ClassOfExactRatio ==
  (Has("hallucinated_flag_rate") /\ detected_flags # <<>>) =>
    LET h == Result("hallucinated_flag_rate")
        v == h.hallucinated_rate
    IN /\ h.classification = RateClass(NHallucinated, NDetected)
       /\ 2 * NHallucinated = NDetected => h.classification = "Medium"
       /\ v.d = 100
       /\ 2 * Abs(v.n * NDetected - 100 * NHallucinated) <= NDetected
       /\ h.classification # RateClass(v.n, v.d) =>
            \/ v.n = 10 /\ h.classification = "Medium"
                        /\ 10 * NHallucinated > NDetected
            \/ v.n = 50 /\ h.classification = "High"
                        /\ 2 * NHallucinated > NDetected

\* 3 hallucinated flags of 29 detected: reported 0.1, classified Medium
C15_Witness ==
  /\ Has("hallucinated_flag_rate")
  /\ NDetected = 29
  /\ NHallucinated = 3
  /\ Result("hallucinated_flag_rate").hallucinated_rate = Rat(10, 100)
  /\ Result("hallucinated_flag_rate").classification = "Medium"

\* position of the first line starting with "assumptions:", 0 when absent
FirstHeaderIndex(lines) ==
  LET I == {i \in 1..Len(lines) : IsAssumptionsLine(lines[i])}
  IN IF I = {} THEN 0 ELSE Min(I)

\* position of the first line starting with "answer:" after that header
AnswerAfterHeader(lines) ==
  LET h == FirstHeaderIndex(lines)
      I == {i \in 1..Len(lines) : h > 0 /\ i > h /\ IsAnswerLine(lines[i])}
  IN IF I = {} THEN 0 ELSE Min(I)

\* the lines a numbered item may be extracted from: those between the first
\* Assumptions header and the first Answer header after it
BeforeAnswer(lines) ==
  LET h == FirstHeaderIndex(lines)
      a == AnswerAfterHeader(lines)
  IN IF h = 0 THEN <<>>
     ELSE SubSeq(lines, h + 1, IF a = 0 THEN Len(lines) ELSE a - 1)

\* the flags of the numbered items among the given lines
RECURSIVE FlagsOf(_)
FlagsOf(lines) ==
  IF lines = <<>> THEN <<>>
  ELSE LET m == ItemMatch(Strip(Head(lines)))
       IN (IF m.matched /\ ~IsAssumptionsLine(Head(lines))
           THEN <<_normalize_text(DropTrailingPeriod(m.raw_flag_text))>>
           ELSE <<>>) \o FlagsOf(Tail(lines))

\* C16: only flags raised before the Answer section count: no line after the
\* first Answer header that follows the Assumptions header is extracted as
\* a flag, even if another Assumptions header follows, so coverage is FALSE
\* for an expected flag that appears only after the Answer header; with an
\* empty expected list coverage is TRUE.
C16_OnlyFlagsBeforeAnswer ==
  Extracted =>
    LET before == FlagsOf(BeforeAnswer(SplitLines(response_text)))
        k == "coverage_all_flags_before_answering"
    IN /\ detected_flags = before
       /\ Has(k) =>
            /\ Result(k).all_flags_covered_before_answer
                 = (ToSet(expected_flags) \subseteq ToSet(before))
            /\ expected_flags = <<>> => Result(k).all_flags_covered_before_answer

\* the expected flag fish is raised only after the Answer header, under a
\* second Assumptions header: it is not extracted and coverage is FALSE
C16_Witness ==
  /\ Done
  /\ input \in OrderInputs
  /\ input.pre = <<HdrPlain>>
  /\ input.block = <<Item(<<"1">>, TxtBirds, <<"j">>)>>
  /\ input.post = <<AnsUpper, HdrPlain, LineFishAfter>>
  /\ expected_flags = <<WordFish>>
  /\ detected_flags = <<WordBird>>
  /\ ~Result("coverage_all_flags_before_answering").all_flags_covered_before_answer

\* C17 (as stated): total_flags_count equals the cardinality of the set of
\* detected flags of the response, the denominator of precision (and of the
\* hallucination rate) computed for that response.
C17_TotalIsSetCardinality ==
  (Extracted /\ Done) =>
    /\ Result("total_flags_count").total_flags_count = NDetected
    /\ detected_flags # <<>> =>
         Result("total_flags_count").total_flags_count
           = Result("assumption_precision").precision_score.d

\* C17 (amended): total_flags_count equals the number of extracted flag
\* lines, the length of the detected list with repeated flags counted each
\* time; the denominator of precision is the number of distinct detected
\* flags, which is at most that count and equal to it exactly when the
\* detected flags are pairwise distinct.
C17_TotalIsListLength ==
  (Extracted /\ Done) =>
    LET count == Result("total_flags_count").total_flags_count
    IN /\ count = Len(detected_flags)
       /\ count = Len(justifications)
       /\ detected_flags # <<>> =>
            LET den == Result("assumption_precision").precision_score.d
            IN /\ den = NDetected
               /\ den <= count
               /\ den = count <=>
                    \A i, j \in 1..Len(detected_flags) :
                      detected_flags[i] = detected_flags[j] => i = j

\* the same flag raised on two lines: counted twice, one distinct flag
C17_Witness ==
  /\ Extracted
  /\ Done
  /\ detected_flags = <<WordFish, WordFish>>
  /\ Result("total_flags_count").total_flags_count = 2
  /\ Result("assumption_precision").precision_score.d = 1

\* C20: for a numbered flag-block line with more than one parenthesized
\* group one flag is extracted and its justification is the last group, the
\* one anchored at the end of the line (stated for the responses that are an
\* Assumptions header followed by numbered lines with one or two groups).
C20_LastGroupIsJustification ==
  (/\ Extracted
   /\ input.pre = <<HdrPlain>>
   /\ \A i \in 1..Len(input.block) : input.block[i].kind \in {"item", "multi"})
  => /\ Len(detected_flags) = Len(input.block)
     /\ Len(justifications) = Len(input.block)
     /\ \A i \in 1..Len(input.block) :
          justifications[i] = Strip(input.block[i].just)

\* the whole-word occurrences of a phrase in a text, letter case ignored
Occurrences(phrase, text) ==
  Cardinality({i \in 1..Len(text) :
                 PhraseMatchesAt(Lower(phrase), Lower(text), i)})

RECURSIVE SumOccurrences(_, _)
SumOccurrences(phrases, text) ==
  IF phrases = <<>> THEN 0
  ELSE Occurrences(Head(phrases), text) + SumOccurrences(Tail(phrases), text)

\* C18: hedging_count is the sum over the phrases of the vocabulary of the
\* whole-word occurrences of the phrase in the text, matched regardless of
\* letter case, so a phrase that occurs once contributes exactly 1; for an
\* empty, whitespace-only or non-string text it is 0.
C18_HedgingCount ==
  Has("hedging_count") =>
    LET r == Result("hedging_count")
    IN /\ r.success
       /\ r.hedging_count =
            (IF arg_type["unconstrained_response"] # "str"
                \/ Strip(unconstrained_response) = <<>>
             THEN 0
             ELSE SumOccurrences(hedging_phrases, unconstrained_response))

IsBlankText(t) == Strip(t) = <<>>

NValid == Cardinality({i \in 1..Len(justifications) : ~IsBlankText(justifications[i])})

\* the tokens of the first k justifications, blank ones adding nothing
RECURSIVE TokensUpTo(_)
TokensUpTo(k) ==
  IF k = 0 THEN 0
  ELSE (IF IsBlankText(justifications[k]) THEN 0
        ELSE NonSpaceTokenCount(justifications[k])) + TokensUpTo(k - 1)

NTokens == TokensUpTo(Len(justifications))

JustificationClass ==
  IF NValid = 0 THEN {"N/A (No justifications)", "N/A (No non-empty justifications)"}
  ELSE IF NTokens <= 10 * NValid THEN {"Short"}
  ELSE IF NTokens <= 20 * NValid THEN {"Medium"}
  ELSE {"Long"}

C21_HeaderOnlyOnFirstLine ==
  (Extracted /\ ~HeaderFirst) =>
    (detected_flags = <<>> /\ justifications = <<>>)

\* C22: while run_llm_evaluation processes a response, the extraction
\* (_extract_constrained_flags) is invoked exactly once for it: never more
\* than once at any point, and once by the time its record is written; no
\* metric extracts again.
C22_ExtractedOncePerResponse ==
  /\ extract_calls <= 1
  /\ (todo # <<>> /\ Head(todo) = "write") => extract_calls = 1

\* the failure mode a diagnostic of evaluate_format_compliance belongs to
ReasonKind(msg) ==
  CASE msg = MsgEmpty -> "input"
    [] msg = MsgNoHeader -> "header"
    [] msg \in {MsgNotSequential, MsgContentBefore, MsgNoNumbered} -> "block"
    [] msg \in {MsgNoAnswerNoContent, MsgNoAnswer} -> "answer"
    [] OTHER -> "none"

\* C23: evaluate_format_compliance reports the first applicable failure in
\* the order: blank input, Assumptions header not on the first non-blank
\* line, flag-block violation (a non-numbered non-blank line or a number out
\* of sequence), missing Answer header; so a response with a numbering gap
\* and no Answer header is reported with the numbering reason.
C23_FirstApplicableReason ==
  Has("format_compliance") =>
    LET r == Result("format_compliance")
        lines == SplitLines(response_text)
        block == FlagBlock(lines)
        nums == NumberedIndices(block)
        unnumbered == \E i \in NonBlank(block) : ~IsNumbered(block[i])
        gap == \E i \in 1..Len(nums) : nums[i] # i
        noAnswer == \A i \in 1..Len(lines) : ~IsAnswerLine(lines[i])
        first == IF NonBlank(lines) = {} THEN "input"
                 ELSE IF ~HeaderFirst THEN "header"
                 ELSE IF unnumbered \/ gap THEN "block"
                 ELSE IF noAnswer THEN "answer"
                 ELSE "none"
    IN /\ ReasonKind(r.details.msg) = first
       /\ r.compliant <=> first = "none"
       /\ (HeaderFirst /\ gap /\ ~unnumbered /\ noAnswer) =>
            r.details.msg = MsgNotSequential

\* a line that consists of an index and a period only, such as "1."
IndexOnly(line) ==
  LET l == Strip(line)
      n == LeadingDigits(l)
  IN n >= 1 /\ Len(l) = n + 1 /\ l[n + 1] = "."

\* C24: a flag-block line that is only an index and a period, with no item
\* text after it, is not a numbered item, so a response with such a line in
\* its flag block is not compliant.
C24_IndexOnlyLineFails ==
  Has("format_compliance") =>
    LET block == FlagBlock(SplitLines(response_text))
    IN (\E i \in 1..Len(block) : IndexOnly(block[i])) =>
         ~Result("format_compliance").compliant

\* the justifications of the numbered items among the given lines
RECURSIVE JustificationsOf(_)
JustificationsOf(lines) ==
  IF lines = <<>> THEN <<>>
  ELSE LET m == ItemMatch(Strip(Head(lines)))
       IN (IF m.matched /\ ~IsAssumptionsLine(Head(lines))
           THEN <<m.raw_justification>> ELSE <<>>)
          \o JustificationsOf(Tail(lines))

\* C25: when the response is not a string, or no line of it starts with
\* "Assumptions:", the extractor returns two empty lists and raises nothing
\* (whatever the nlp pipeline does); when the header is there and no later
\* line starts with "Answer:", the flag block runs to the end of the text
\* and every matching numbered line after the header, up to the last line,
\* is extracted.
C25_ExtractorEdgeCases ==
  (todo = <<>> /\ extract_calls = 1) =>
    LET lines == SplitLines(response_text)
        h == FirstHeaderIndex(lines)
        rest == SubSeq(lines, h + 1, Len(lines))
    IN /\ (arg_type["response_text"] # "str" \/ h = 0) =>
            /\ run = "running"
            /\ detected_flags = <<>>
            /\ justifications = <<>>
       /\ (/\ arg_type["response_text"] = "str"
           /\ h # 0
           /\ AnswerAfterHeader(lines) = 0
           /\ ~nlp_raises) =>
            /\ run = "running"
            /\ detected_flags = FlagsOf(rest)
            /\ justifications = JustificationsOf(rest)

\* a value that is no string was passed while the nlp pipeline fails
C25_WitnessNotString ==
  /\ todo = <<>>
  /\ extract_calls = 1
  /\ arg_type["response_text"] = "NoneType"
  /\ nlp_raises
  /\ run = "running"
  /\ detected_flags = <<>>

\* a header, two matching numbered lines and no Answer header: the item of
\* the last line is extracted
C25_Witness ==
  /\ todo = <<>>
  /\ extract_calls = 1
  /\ input.pre = <<HdrPlain>>
  /\ input.post = <<>>
  /\ Len(input.block) = 2
  /\ detected_flags = <<WordBird, WordFish>>
  /\ justifications = << <<"j">>, <<"k">> >>

\* the text that follows the Answer header of the given lines: the rest of
\* the first line starting with "Answer:" and the lines after it, stripped
\* (<<>> when no line starts with "Answer:")
AnswerSection(lines) ==
  LET A == {i \in 1..Len(lines) : IsAnswerLine(lines[i])}
  IN IF A = {} THEN <<>>
     ELSE LET a == Min(A)
              l == LStrip(lines[a])
              after == SubSeq(l, Len(AnswerPrefix) + 1, Len(l))
          IN Strip(Join(<<after>> \o SubSeq(lines, a + 1, Len(lines)), <<NL>>))

\* C26: evaluate_answer_conciseness measures exactly the text that follows
\* the Answer header, the first line starting with "Answer:": word_count and
\* sentence_count are those of that text; a response without such a line
\* gives word_count 0, sentence_count 0 and the N/A classification with
\* success = TRUE.
C26_MeasuresAnswerSection ==
  Has("answer_conciseness") =>
    LET r == Result("answer_conciseness")
        lines == SplitLines(response_text)
        t == AnswerSection(lines)
    IN /\ r.success
       /\ r.word_count = (IF t = <<>> THEN 0 ELSE AlphaTokenCount(t))
       /\ r.sentence_count = (IF t = <<>> THEN 0 ELSE SentenceCount(t))
       /\ (\A i \in 1..Len(lines) : ~IsAnswerLine(lines[i])) =>
            r.classification = "N/A (No answer text)"

\* C27: the validator and the extractor agree on the flag block: whenever
\* the validator comes to its numbering check (the header is the first
\* non-blank line), the lines it checks are exactly the lines strictly
\* between the first Assumptions header and the first Answer header after
\* it, the lines the extractor reads, also when several lines start with
\* "Assumptions:"; so in a compliant response every extracted flag comes
\* from a line that the sequential-numbering check covered.
C27_SameFlagBlock ==
  (Done /\ HeaderFirst) =>
    LET lines == SplitLines(response_text)
    IN /\ AssumptionsContentLines(lines) = FlagBlock(lines)
       /\ Result("format_compliance").compliant =>
            detected_flags = FlagsOf(AssumptionsContentLines(lines))

\* C28: precision and recall are mirror images: the precision_score of
\* (expected = A, detected = B) equals the recall_score of
\* (expected = B, detected = A), and the recall_score of (A, B) equals the
\* precision_score of (B, A), an empty A or B included; both scores lie
\* between 0 and 1.
C28_PrecisionRecallMirror ==
  (Has("assumption_recall") /\ Has("assumption_precision")) =>
    LET p == Result("assumption_precision").precision_score
        r == Result("assumption_recall").recall_score
        mirror_r == Call_evaluate_assumption_recall(
                      "list", "list", detected_flags, expected_flags)
        mirror_p == Call_evaluate_assumption_precision(
                      "list", "list", detected_flags, expected_flags)
    IN /\ RatEq(p, mirror_r.recall_score)
       /\ RatEq(r, mirror_p.precision_score)
       /\ RatGe(p, Zero) /\ RatGe(One, p)
       /\ RatGe(r, Zero) /\ RatGe(One, r)

\* nothing was detected and two flags were expected: precision is 1.0 by
\* the empty-list convention, as is the recall of the swapped lists, and
\* recall is 0.0
C28_Witness ==
  /\ Has("assumption_recall")
  /\ Has("assumption_precision")
  /\ detected_flags = <<>>
  /\ Len(expected_flags) = 2
  /\ Result("assumption_precision").precision_score = One
  /\ Result("assumption_recall").recall_score = Zero

\* the ground truth of corpus row k has no usable entry: its QueryID has no
\* row in the ground truth file, or the row's column is not JSON
NoGroundTruth(k) == corpus[k].ground_truth.kind \in {"no row", "not JSON"}

\* C29: a response whose QueryID has no ground-truth entry, or whose
\* ExpectedAssumptions failed to parse, is evaluated against an empty
\* expected list and its record is still written: while the row is processed
\* with an nlp pipeline that works on it the expected list is empty and the
\* run goes on (a failing pipeline ends the run at the extraction whatever
\* the ground truth is), and in the written record recall is 1.0 with the
\* N/A classification, coverage is TRUE, and every detected flag is
\* hallucinated: with a flag detected, precision is 0.0 and the hallucinated
\* rate is 1.0.
C29_MissingGroundTruth ==
  /\ (/\ Len(report) < Len(corpus)
      /\ todo # <<>> \/ run = "crashed"
      /\ NoGroundTruth(Len(report) + 1)
      /\ ~nlp_raises) =>
       /\ run = "running"
       /\ expected_flags = <<>>
  /\ (run = "done") => Len(report) = Len(corpus)
  /\ \A k \in 1..Len(report) :
       NoGroundTruth(report[k].entry) =>
         LET res == report[k].results
         IN /\ RatEq(res["assumption_recall"].recall_score, One)
            /\ res["assumption_recall"].classification = "N/A (No expected flags)"
            /\ res["coverage_all_flags_before_answering"].all_flags_covered_before_answer
            /\ report[k].detected_flags # <<>> =>
                 /\ RatEq(res["assumption_precision"].precision_score, Zero)
                 /\ RatEq(res["hallucinated_flag_rate"].hallucinated_rate, One)

\* the run is over; the one response raised the flag bird, the column of its
\* ground-truth row was not JSON, and its record was written
C29_Witness ==
  /\ run = "done"
  /\ Len(report) = 1
  /\ corpus[1].ground_truth.kind = "not JSON"
  /\ report[1].detected_flags = <<WordBird>>
  /\ RatEq(report[1].results["assumption_precision"].precision_score, Zero)
  /\ RatEq(report[1].results["assumption_recall"].recall_score, One)

\* C30: in every result record returned by a metric function or by
\* evaluate_format_compliance, error_message is non-null if and only if
\* success is FALSE.
C30_ErrorMessageIffFailure ==
  \A k \in DOMAIN eval_results :
    (eval_results[k].error_message # NoneVal) <=> ~eval_results[k].success

====
